---- MODULE Spec2Model ----
\* Safe Return (core app): the risk engine (calculate_risk_level,
\* process_checkin), the views and API endpoints that submit check-ins and
\* create or update support tickets, modelled as a state machine over the
\* database tables ReleaseProfile, MonthlyCheckin, SupportTicket, Notification.
EXTENDS Integers, Sequences, FiniteSets

\* ------------------------------------------------------------------ bounds
\* Number of requests handled in one behaviour.
MaxOps == 3

\* Dates are day numbers 0..MaxDay.
MaxDay == 365

\* ------------------------------------------------------- enumerated fields
RISK_LEVEL_CHOICES == {"green", "yellow", "red"}

HOUSING_STATUS_CHOICES == {"stable", "temporary", "with_family", "homeless"}

JOB_STATUS_CHOICES == {"employed", "self_employed", "searching", "unemployed", "training"}

MENTAL_STATE_CHOICES == {"good", "moderate", "stressed", "bad"}

FAMILY_STATUS_CHOICES == {"supportive", "neutral", "problematic", "no_contact"}

TYPE_CHOICES == {"job", "social", "psychological", "housing", "financial"}

STATUS_CHOICES == {"open", "in_progress", "resolved", "closed"}

\* The four status fields of a MonthlyCheckin, every combination of choices.
CheckinFields ==
    [housing_status : HOUSING_STATUS_CHOICES,
     job_status     : JOB_STATUS_CHOICES,
     mental_state   : MENTAL_STATE_CHOICES,
     family_status  : FAMILY_STATUS_CHOICES]

\* ------------------------------------------------------------------- users
NoUser == [role |-> "none", id |-> 0]

CaseWorker == [role |-> "case_worker", id |-> 1]

Admin == [role |-> "admin", id |-> 2]

\* ReleaseProfile.user: the beneficiary who owns profile p (one to one).
ProfileUser(p) == [role |-> "beneficiary", id |-> p]

\* Profiles in the database, and the profiles whose owner sends requests.
Profiles == {1, 2}

ActiveProfiles == {1}

\* Month indices submitted.
MonthInputs == {1, 2}

\* A month index past the twelve months, as the form URL and the API take it.
InvalidMonthInputs == {13}

\* The month indexes a stored check-in can have here.
MonthIndexes == MonthInputs \cup InvalidMonthInputs

NoCheckin == [housing_status |-> "none", job_status |-> "none",
              mental_state |-> "none", family_status |-> "none"]

Checkin(h, j, m, f) ==
    [housing_status |-> h, job_status |-> j, mental_state |-> m, family_status |-> f]

\* Check-in contents submitted in the stateful specification: the green
\* report, one that is yellow without any ticket rule, one for the job and
\* social rules, one for the housing rule, and the red report of the
\* combined scenario (psychological, job and social rules).
CheckinInputs ==
    { Checkin("stable", "employed", "good", "supportive"),
      Checkin("stable", "employed", "stressed", "supportive"),
      Checkin("with_family", "unemployed", "moderate", "no_contact"),
      Checkin("homeless", "searching", "good", "supportive"),
      Checkin("temporary", "unemployed", "bad", "problematic") }

\* Check-in contents sent when a stored check-in is edited through the API.
EditInputs ==
    { Checkin("stable", "employed", "good", "supportive"),
      Checkin("temporary", "unemployed", "bad", "problematic") }

\* Check-in contents with a field outside its choices.
InvalidCheckinInputs ==
    { [housing_status |-> "other", job_status |-> "employed",
       mental_state |-> "good", family_status |-> "supportive"],
      [housing_status |-> "temporary", job_status |-> "unemployed",
       mental_state |-> "awful", family_status |-> "problematic"] }

\* Submissions that are not valid: a field outside its choices, or a month
\* index past 12.
InvalidSubmissions ==
    { <<m, c>> : m \in MonthInputs, c \in InvalidCheckinInputs } \cup
    { <<m, c>> : m \in InvalidMonthInputs, c \in EditInputs }

\* Ticket types and statuses sent by case workers and API clients.
TicketTypeInputs == {"psychological", "job"}

TicketStatusInputs == {"open", "in_progress", "closed"}

\* Statuses sent to update_ticket_status that are not in STATUS_CHOICES;
\* "none" is a request without the field.
InvalidStatusInputs == {"done", "none"}

\* Risk levels sent when a profile is edited through the API.
RiskLevelInputs == {"green", "red"}

\* -------------------------------------------------------------------- state
VARIABLES
    risk_level,            \* ReleaseProfile.risk_level, per profile
    assigned_case_worker,  \* ReleaseProfile.assigned_case_worker, per profile
    checkins,              \* MonthlyCheckin rows, keyed (profile, month_index)
    tickets,               \* SupportTicket rows, in id order
    notifications,         \* Notification rows, in id order
    latest_submitted,      \* per profile, month of the report submitted last
    last,                  \* the request handled last and what it returned
    prev,                  \* the request handled before it
    before,                \* the tables as they were when `last` arrived
    nops,                  \* requests handled so far
    is_completed,          \* ReleaseProfile.is_completed, per profile
    timeline,              \* the dates current_month last read, and its result
    calls,                 \* process_checkin calls in progress, step by step
    deleted_users          \* User rows deleted through the API

vars == <<risk_level, assigned_case_worker, checkins, tickets, notifications,
          latest_submitted, last, prev, before, nops, is_completed, timeline, calls,
          deleted_users>>

\* ------------------------------------------------ variants of the engine
\* calculate_risk_level with the yellow conditions tested before the red ones.
calculate_risk_level_yellow_first(checkin) ==
    IF \/ checkin.job_status = "unemployed"
       \/ checkin.family_status = "problematic"
       \/ checkin.mental_state = "stressed"
       \/ checkin.family_status = "no_contact"
    THEN "yellow"
    ELSE IF checkin.mental_state = "bad" \/ checkin.housing_status = "homeless"
    THEN "red"
    ELSE "green"

\* calculate_risk_level with the two yellow conditions of its docstring only.
calculate_risk_level_two_yellow(checkin) ==
    IF checkin.mental_state = "bad" \/ checkin.housing_status = "homeless"
    THEN "red"
    ELSE IF \/ checkin.job_status = "unemployed"
            \/ checkin.family_status = "problematic"
    THEN "yellow"
    ELSE "green"

\* calculate_risk_level counting a job search as a yellow condition.
calculate_risk_level_searching(checkin) ==
    IF checkin.mental_state = "bad" \/ checkin.housing_status = "homeless"
    THEN "red"
    ELSE IF \/ checkin.job_status \in {"unemployed", "searching"}
            \/ checkin.family_status \in {"problematic", "no_contact"}
            \/ checkin.mental_state = "stressed"
    THEN "yellow"
    ELSE "green"

\* calculate_risk_level with red absorbing: a profile whose stored level is
\* red stays red whatever the check-in says.
calculate_risk_level_red_kept(checkin) ==
    IF \/ checkin.mental_state = "bad"
       \/ checkin.housing_status = "homeless"
       \/ \E p \in ActiveProfiles : risk_level[p] = "red"
    THEN "red"
    ELSE IF \/ checkin.job_status = "unemployed"
            \/ checkin.family_status \in {"problematic", "no_contact"}
            \/ checkin.mental_state = "stressed"
    THEN "yellow"
    ELSE "green"

\* ------------------------------------------------------------- risk engine
\* calculate_risk_level(checkin): red before yellow before green.
calculate_risk_level(checkin) ==
    LET red_conditions ==
            { checkin.mental_state = "bad",
              checkin.housing_status = "homeless" }
        yellow_conditions ==
            { checkin.job_status = "unemployed",
              checkin.family_status = "problematic",
              checkin.mental_state = "stressed",
              checkin.family_status = "no_contact" }
    IN  IF TRUE \in red_conditions THEN "red"
        ELSE IF TRUE \in yellow_conditions THEN "yellow"
        ELSE "green"

\* ---------------------------------------------------------------- rows
\* A Notification row; is_read defaults to False.
Notification(user, template, profile) ==
    [user |-> user,
     message |-> [template |-> template, profile |-> profile],
     is_read |-> FALSE]

\* A SupportTicket row.
SupportTicket(profile, created_by, ticket_type, status, notes, auto) ==
    [release_profile |-> profile, created_by |-> created_by,
     ticket_type |-> ticket_type, status |-> status, notes |-> notes,
     is_auto_generated |-> auto]

\* The notes of an automatic ticket name the rule and the month index.
AutoNotes(ticket_type, month_index) ==
    [text |-> ticket_type, month |-> month_index]

ManualNotes == [text |-> "manual", month |-> 0]

\* A row deleted through the API keeps its place in its table, so that the
\* ids of the other rows stay what they were (the database gives no id
\* twice); no query finds it. For a ReleaseProfile the place is its
\* risk_level.
DeletedTicket ==
    SupportTicket(0, NoUser, "none", "deleted", ManualNotes, FALSE)

DeletedNotification == Notification(NoUser, "deleted", 0)

DeletedProfile == "deleted"

\* The rows SupportTicket.objects.get(release_profile, ticket_type,
\* status='open', is_auto_generated=True) matches.
OpenAutoTickets(tks, profile, ticket_type) ==
    { i \in DOMAIN tks :
        /\ tks[i].release_profile = profile
        /\ tks[i].ticket_type = ticket_type
        /\ tks[i].status = "open"
        /\ tks[i].is_auto_generated }

\* get_or_create replaced by a plain create: the table is not searched.
get_or_create_blind_insert(tks, profile, ticket_type, month_index) ==
    [outcome |-> "created",
     tickets |-> Append(tks,
         SupportTicket(profile, NoUser, ticket_type, "open",
                       AutoNotes(ticket_type, month_index), TRUE)),
     id |-> Len(tks) + 1]

\* SupportTicket.objects.get_or_create(...): the single matching row, a new
\* row when none matches, MultipleObjectsReturned when several match.
get_or_create(tks, profile, ticket_type, month_index) ==
    LET matching == OpenAutoTickets(tks, profile, ticket_type)
    IN  IF Cardinality(matching) = 1
        THEN [outcome |-> "found", tickets |-> tks,
              id |-> CHOOSE i \in matching : TRUE]
        ELSE IF matching = {}
        THEN [outcome |-> "created",
              tickets |-> Append(tks,
                  SupportTicket(profile, NoUser, ticket_type, "open",
                                AutoNotes(ticket_type, month_index), TRUE)),
              id |-> Len(tks) + 1]
        ELSE [outcome |-> "raised", tickets |-> tks, id |-> 0]

\* Every ticket type alerts the case worker.
AlertsCaseWorker_every_type(ticket_type) == ticket_type \in TYPE_CHOICES

\* Whether a new ticket of this type alerts the assigned case worker.
AlertsCaseWorker(ticket_type) == ticket_type \in {"psychological", "housing"}

\* TicketRule with the alert outside the `if created` block: the case worker
\* is alerted whenever the rule is triggered.
TicketRule_alert_when_found(st, profile, month_index, worker, triggered, ticket_type) ==
    IF st.raised \/ ~triggered THEN st
    ELSE LET matching == OpenAutoTickets(st.tickets, profile, ticket_type)
             alerted ==
                 IF ticket_type \in {"psychological", "housing"} /\ worker # NoUser
                 THEN Append(st.notifications,
                             Notification(worker, ticket_type, profile))
                 ELSE st.notifications
         IN  IF Cardinality(matching) > 1 THEN [st EXCEPT !.raised = TRUE]
             ELSE IF Cardinality(matching) = 1
             THEN [st EXCEPT !.notifications = alerted]
             ELSE [st EXCEPT
                     !.tickets = Append(@,
                         SupportTicket(profile, NoUser, ticket_type, "open",
                                       AutoNotes(ticket_type, month_index), TRUE)),
                     !.created_tickets = Append(@, Len(st.tickets) + 1),
                     !.notifications = alerted]

\* TicketRule written with update_or_create: a ticket that is found takes the
\* notes of the current month.
TicketRule_update_found(st, profile, month_index, worker, triggered, ticket_type) ==
    IF st.raised \/ ~triggered THEN st
    ELSE LET got == get_or_create(st.tickets, profile, ticket_type, month_index)
         IN  IF got.outcome = "raised" THEN [st EXCEPT !.raised = TRUE]
             ELSE IF got.outcome = "found"
             THEN [st EXCEPT !.tickets[got.id].notes =
                                 AutoNotes(ticket_type, month_index)]
             ELSE [st EXCEPT
                     !.tickets = got.tickets,
                     !.created_tickets = Append(@, got.id),
                     !.notifications =
                        IF AlertsCaseWorker(ticket_type) /\ worker # NoUser
                        THEN Append(@, Notification(worker, ticket_type, profile))
                        ELSE @]

\* TicketRule with the append outside the `if created` block: a ticket that
\* is found is returned in created_tickets as well.
TicketRule_returns_found(st, profile, month_index, worker, triggered, ticket_type) ==
    IF st.raised \/ ~triggered THEN st
    ELSE LET got == get_or_create(st.tickets, profile, ticket_type, month_index)
         IN  IF got.outcome = "raised" THEN [st EXCEPT !.raised = TRUE]
             ELSE IF got.outcome = "found"
             THEN [st EXCEPT !.created_tickets = Append(@, got.id)]
             ELSE [st EXCEPT
                     !.tickets = got.tickets,
                     !.created_tickets = Append(@, got.id),
                     !.notifications =
                        IF AlertsCaseWorker(ticket_type) /\ worker # NoUser
                        THEN Append(@, Notification(worker, ticket_type, profile))
                        ELSE @]

\* One rule of process_checkin: when the rule is triggered, get_or_create the
\* ticket; a created ticket is appended to created_tickets and, for the
\* psychological and housing rules, the assigned case worker is notified.
\* st carries the tables and the list built so far; an exception raised by
\* an earlier rule has ended the call.
TicketRule(st, profile, month_index, worker, triggered, ticket_type) ==
    IF st.raised \/ ~triggered THEN st
    ELSE LET got == get_or_create(st.tickets, profile, ticket_type, month_index)
         IN  IF got.outcome = "raised" THEN [st EXCEPT !.raised = TRUE]
             ELSE IF got.outcome = "found" THEN st
             ELSE [st EXCEPT
                     !.tickets = got.tickets,
                     !.created_tickets = Append(@, got.id),
                     !.notifications =
                        IF AlertsCaseWorker(ticket_type) /\ worker # NoUser
                        THEN Append(@, Notification(worker, ticket_type, profile))
                        ELSE @]

\* The housing rule applied to every housing status other than stable.
RuleTriggered_housing_unstable(c, ticket_type) ==
    CASE ticket_type = "psychological" -> c.mental_state = "bad"
      [] ticket_type = "housing" -> c.housing_status \in {"homeless", "temporary"}
      [] ticket_type = "job" -> c.job_status = "unemployed"
      [] ticket_type = "social" -> c.family_status \in {"problematic", "no_contact"}
      [] OTHER -> FALSE

\* The job rule applied to every job status other than employed.
RuleTriggered_job_not_employed(c, ticket_type) ==
    CASE ticket_type = "psychological" -> c.mental_state = "bad"
      [] ticket_type = "housing" -> c.housing_status = "homeless"
      [] ticket_type = "job" -> c.job_status # "employed"
      [] ticket_type = "social" -> c.family_status \in {"problematic", "no_contact"}
      [] OTHER -> FALSE

\* The social rule applied to family_status problematic only.
RuleTriggered_social_problematic(c, ticket_type) ==
    CASE ticket_type = "psychological" -> c.mental_state = "bad"
      [] ticket_type = "housing" -> c.housing_status = "homeless"
      [] ticket_type = "job" -> c.job_status = "unemployed"
      [] ticket_type = "social" -> c.family_status = "problematic"
      [] OTHER -> FALSE

\* The condition on the check-in under which process_checkin applies the
\* rule of a ticket type.
RuleTriggered(c, ticket_type) ==
    CASE ticket_type = "psychological" -> c.mental_state = "bad"
      [] ticket_type = "housing" -> c.housing_status = "homeless"
      [] ticket_type = "job" -> c.job_status = "unemployed"
      [] ticket_type = "social" -> c.family_status \in {"problematic", "no_contact"}
      [] OTHER -> FALSE

\* risk_messages of process_checkin: the message template of each tier.
risk_messages ==
    [green |-> "stable", yellow |-> "concerns", red |-> "urgent"]

\* The notification to the beneficiary at the end of process_checkin.
TierNotification(st, profile, old_risk_level, new_risk_level) ==
    IF ~st.raised /\ new_risk_level # old_risk_level
    THEN Append(st.notifications,
                Notification(ProfileUser(profile), risk_messages[new_risk_level], 0))
    ELSE st.notifications

\* ----------------------------------------------------------------- summary
\* profile.checkins.first(): the check-ins are ordered by -month_index, so
\* the first is the one with the highest month index; 0 when there is none.
FirstCheckinMonth(rows) ==
    IF \A m \in DOMAIN rows : rows[m] = NoCheckin THEN 0
    ELSE CHOOSE m \in DOMAIN rows :
             /\ rows[m] # NoCheckin
             /\ \A n \in DOMAIN rows : rows[n] # NoCheckin => n <= m

\* The factor and the recommendation get_risk_summary appends per condition,
\* in the order of its five tests.
SummaryTests ==
    << [field |-> "mental_state", value |-> "bad",
        factor |-> "mental_bad", recommendation |-> "psychological_support"],
       [field |-> "housing_status", value |-> "homeless",
        factor |-> "homeless", recommendation |-> "housing_charity"],
       [field |-> "job_status", value |-> "unemployed",
        factor |-> "unemployed", recommendation |-> "job_opportunities"],
       [field |-> "family_status", value |-> "problematic",
        factor |-> "family_problematic", recommendation |-> "family_counselling"],
       [field |-> "family_status", value |-> "no_contact",
        factor |-> "family_no_contact", recommendation |-> "rebuild_family_ties"] >>

\* The tests with one more, for mental_state stressed.
MatchingTests_with_stressed(checkin) ==
    SelectSeq(SummaryTests
                  \o << [field |-> "mental_state", value |-> "stressed",
                         factor |-> "mental_stressed",
                         recommendation |-> "psychological_support"] >>,
              LAMBDA t : checkin[t.field] = t.value)

\* The tests without the last one, for family_status no_contact.
MatchingTests_first_four(checkin) ==
    SelectSeq(SubSeq(SummaryTests, 1, 4), LAMBDA t : checkin[t.field] = t.value)

\* The tests of get_risk_summary the check-in meets, in order.
MatchingTests(checkin) ==
    SelectSeq(SummaryTests, LAMBDA t : checkin[t.field] = t.value)

NoSummary ==
    [risk_level |-> "none", factors |-> <<>>, recommendations |-> <<>>,
     latest_month |-> 0, latest_checkin |-> NoCheckin]

\* get_risk_summary returning the stored level also when the profile has no
\* check-in.
get_risk_summary_stored_level(stored_level, rows) ==
    LET latest_month == FirstCheckinMonth(rows)
    IN  IF latest_month = 0
        THEN [NoSummary EXCEPT !.risk_level = stored_level,
                               !.recommendations = << "complete_first_checkin" >>]
        ELSE LET matching == MatchingTests(rows[latest_month])
             IN  [risk_level |-> stored_level,
                  factors |-> [i \in DOMAIN matching |-> matching[i].factor],
                  recommendations |->
                      [i \in DOMAIN matching |-> matching[i].recommendation],
                  latest_month |-> latest_month,
                  latest_checkin |-> rows[latest_month]]

\* get_risk_summary(profile), of the stored level and the check-in rows of
\* the profile: without a check-in green, no factor and one recommendation;
\* else the stored level and a factor and recommendation per matching test
\* of the first check-in.
get_risk_summary(stored_level, rows) ==
    LET latest_month == FirstCheckinMonth(rows)
    IN  IF latest_month = 0
        THEN [NoSummary EXCEPT !.risk_level = "green",
                               !.recommendations = << "complete_first_checkin" >>]
        ELSE LET matching == MatchingTests(rows[latest_month])
             IN  [risk_level |-> stored_level,
                  factors |-> [i \in DOMAIN matching |-> matching[i].factor],
                  recommendations |->
                      [i \in DOMAIN matching |-> matching[i].recommendation],
                  latest_month |-> latest_month,
                  latest_checkin |-> rows[latest_month]]

\* ---------------------------------------------------------------- timeline
Min(a, b) == IF a <= b THEN a ELSE b

\* int(n / d) of Python for d > 0: the quotient with its fraction dropped.
TruncDiv(n, d) == IF n >= 0 THEN n \div d ELSE -((-n) \div d)

\* current_month without the + 1: months counted from 0.
current_month_from_zero(release_date, today) ==
    IF release_date = <<>> THEN 0
    ELSE Min((today - release_date[1]) \div 30, 12)

\* ReleaseProfile.current_month: 0 without a release date, else the days
\* since release floor-divided by 30, plus 1, capped at 12.  release_date
\* is <<>> when absent and <<day>> otherwise.
current_month(release_date, today) ==
    IF release_date = <<>> THEN 0
    ELSE LET days_since_release == today - release_date[1]
             month == (days_since_release \div 30) + 1
         IN  Min(month, 12)

\* progress_percentage rounding to the nearest integer.
progress_percentage_rounded(month) ==
    Min(100, (2 * month * 100 + 12) \div (2 * 12))

\* ReleaseProfile.progress_percentage, of the value current_month returned:
\* min(100, int((current_month / 12) * 100)).
progress_percentage(month) ==
    Min(100, TruncDiv(month * 100, 12))

\* ------------------------------------------------------------ requests
\* What is recorded of a request: the view or endpoint, its inputs and the
\* dict process_checkin returned.
NoRequest ==
    [op |-> "none", profile |-> 0, month_index |-> 0, checkin |-> NoCheckin,
     outcome |-> "none", old_risk_level |-> "none", new_risk_level |-> "none",
     risk_changed |-> FALSE, created_tickets |-> <<>>, summary |-> NoSummary,
     user |-> NoUser, ticket_id |-> 0, new_status |-> "none"]

Request(op, profile, outcome) ==
    [NoRequest EXCEPT !.op = op, !.profile = profile, !.outcome = outcome]

\* The tables a request finds.
Tables ==
    [risk_level |-> risk_level, checkins |-> checkins, tickets |-> tickets,
     notifications |-> notifications, is_completed |-> is_completed,
     timeline |-> timeline]

\* No date has been read yet.
NoTimeline ==
    [release_date |-> <<>>, end_of_followup_date |-> <<>>, today |-> 0,
     current_month |-> 0, progress_percentage |-> 0, read |-> FALSE]

\* Every request is counted and remembered. A request for a profile that
\* was deleted finds no row and writes nothing.
Counted(request) ==
    /\ nops < MaxOps
    /\ request.profile \in Profiles => risk_level[request.profile] # DeletedProfile
    /\ nops' = nops + 1
    /\ prev' = last
    /\ last' = request
    /\ before' = Tables

\* A request that deletes no user.
Handled(request) ==
    /\ Counted(request)
    /\ UNCHANGED deleted_users

\* process_checkin(checkin) for the check-in c of month m of profile p: the
\* risk level is saved first, then the four ticket rules run in order, then
\* the beneficiary is notified of a changed level and the dict is returned.
\* When get_or_create raises, the call ends there (outcome "raised"): the
\* writes made before the exception stay, the database runs in autocommit.
process_checkin(p, m, c) ==
    LET new_risk_level == calculate_risk_level(c)
        old_risk_level == risk_level[p]
        worker == assigned_case_worker[p]
        st0 == [tickets |-> tickets, notifications |-> notifications,
                created_tickets |-> <<>>, raised |-> FALSE]
    IN  \E st1 \in {TicketRule(st0, p, m, worker,
                               RuleTriggered(c, "psychological"),
                               "psychological")} :
        \E st2 \in {TicketRule(st1, p, m, worker,
                               RuleTriggered(c, "housing"), "housing")} :
        \E st3 \in {TicketRule(st2, p, m, worker,
                               RuleTriggered(c, "job"), "job")} :
        \E st4 \in {TicketRule(st3, p, m, worker,
                               RuleTriggered(c, "social"), "social")} :
            /\ risk_level' = [risk_level EXCEPT ![p] = new_risk_level]
            /\ tickets' = st4.tickets
            /\ notifications' =
                   TierNotification(st4, p, old_risk_level, new_risk_level)
            /\ Handled(
                 [op |-> "process_checkin", profile |-> p, month_index |-> m,
                  checkin |-> c,
                  outcome |-> IF st4.raised THEN "raised" ELSE "returned",
                  old_risk_level |-> old_risk_level,
                  new_risk_level |-> new_risk_level,
                  risk_changed |-> old_risk_level # new_risk_level,
                  created_tickets |-> st4.created_tickets,
                  summary |-> NoSummary, user |-> NoUser, ticket_id |-> 0,
                  new_status |-> "none"])
            /\ UNCHANGED <<assigned_case_worker, is_completed, timeline, calls>>

\* The check-in is saved, then process_checkin runs on it.
SaveAndProcess(p, m, c) ==
    /\ checkins' = [checkins EXCEPT ![p][m] = c]
    /\ latest_submitted' = [latest_submitted EXCEPT ![p] = m]
    /\ process_checkin(p, m, c)

\* checkin_form, POST by the beneficiary of profile p for month m:
\* update_or_create on (release_profile, month_index), then process_checkin.
checkin_form(p, m, c) ==
    SaveAndProcess(p, m, c)

\* MonthlyCheckinViewSet, POST /api/checkins/: the serializer rejects a second
\* row for (release_profile, month_index); perform_create saves the row and
\* runs process_checkin.
perform_create(p, m, c) ==
    IF checkins[p][m] # NoCheckin
    THEN /\ Handled(Request("perform_create", p, "rejected"))
         /\ UNCHANGED <<risk_level, assigned_case_worker, checkins, tickets,
                        notifications, latest_submitted, is_completed,
                        timeline, calls>>
    ELSE SaveAndProcess(p, m, c)

\* MonthlyCheckinViewSet.create, POST /api/checkins/ with any content: the
\* serializer's choice fields refuse a value outside the choices with a 400
\* response; month_index is an integer field with no upper limit.
create(p, m, c) ==
    IF c \notin CheckinFields
    THEN /\ Handled([Request("perform_create", p, "rejected") EXCEPT
                         !.month_index = m, !.checkin = c])
         /\ UNCHANGED <<risk_level, assigned_case_worker, checkins, tickets,
                        notifications, latest_submitted, is_completed,
                        timeline, calls>>
    ELSE perform_create(p, m, c)

\* MonthlyCheckinViewSet, PUT /api/checkins/<id>/: the stored row takes the
\* submitted fields; process_checkin is not called on this path.
perform_update(p, m, c) ==
    /\ checkins[p][m] # NoCheckin
    /\ checkins' = [checkins EXCEPT ![p][m] = c]
    /\ latest_submitted' = [latest_submitted EXCEPT ![p] = m]
    /\ Handled([Request("perform_update", p, "saved") EXCEPT
                    !.month_index = m, !.checkin = c])
    /\ UNCHANGED <<risk_level, assigned_case_worker, tickets, notifications,
                   is_completed, timeline, calls>>

\* create_ticket, POST by a case worker: a manual open ticket, and a
\* notification to the beneficiary.
create_ticket(p, ticket_type) ==
    /\ CaseWorker \notin deleted_users
    /\ tickets' = Append(tickets,
           SupportTicket(p, CaseWorker, ticket_type, "open", ManualNotes, FALSE))
    /\ notifications' = Append(notifications,
           Notification(ProfileUser(p), "ticket_opened", 0))
    /\ Handled(Request("create_ticket", p, "created"))
    /\ UNCHANGED <<risk_level, assigned_case_worker, checkins, latest_submitted,
                   is_completed, timeline, calls>>

\* SupportTicketViewSet, POST /api/tickets/: the row is stored with the
\* status and is_auto_generated the client sent.
api_create_ticket(p, ticket_type, status, auto) ==
    /\ tickets' = Append(tickets,
           SupportTicket(p, NoUser, ticket_type, status, ManualNotes, auto))
    /\ Handled(Request("api_create_ticket", p, "created"))
    /\ UNCHANGED <<risk_level, assigned_case_worker, checkins, notifications,
                   latest_submitted, is_completed, timeline, calls>>

\* update_ticket_status saving the status sent without looking it up in
\* STATUS_CHOICES.
update_ticket_status_by_any_status(user, id, new_status) ==
    LET request == [Request("update_ticket_status", 0, "none") EXCEPT
                       !.user = user, !.ticket_id = id,
                       !.new_status = new_status]
        refused(code) ==
            /\ Handled([request EXCEPT !.outcome = code])
            /\ UNCHANGED <<tickets, notifications>>
    IN  /\ IF user \in deleted_users \/ user.role \notin {"case_worker", "admin"}
           THEN refused("403")
           ELSE IF id \notin DOMAIN tickets \/ tickets[id] = DeletedTicket
           THEN refused("404")
           ELSE /\ tickets' = [tickets EXCEPT ![id].status = new_status]
                /\ notifications' = Append(notifications,
                       Notification(ProfileUser(tickets[id].release_profile),
                                    "ticket_status", 0))
                /\ Handled([request EXCEPT
                               !.profile = tickets[id].release_profile,
                               !.outcome = "saved"])
        /\ UNCHANGED <<risk_level, assigned_case_worker, checkins,
                       latest_submitted, is_completed, timeline, calls>>

\* update_ticket_status, POST by `user` for ticket id with the status sent
\* ("none" when the field is missing): 403 for a user who is not a case
\* worker or an admin, 404 for a ticket that does not exist, 400 for a
\* status outside STATUS_CHOICES; otherwise the status is saved and the
\* beneficiary of the ticket's profile is notified.
update_ticket_status_by(user, id, new_status) ==
    LET request == [Request("update_ticket_status", 0, "none") EXCEPT
                       !.user = user, !.ticket_id = id,
                       !.new_status = new_status]
        refused(code) ==
            /\ Handled([request EXCEPT !.outcome = code])
            /\ UNCHANGED <<tickets, notifications>>
    IN  /\ IF user \in deleted_users \/ user.role \notin {"case_worker", "admin"}
           THEN refused("403")
           ELSE IF id \notin DOMAIN tickets \/ tickets[id] = DeletedTicket
           THEN refused("404")
           ELSE IF new_status \in STATUS_CHOICES
           THEN /\ tickets' = [tickets EXCEPT ![id].status = new_status]
                /\ notifications' = Append(notifications,
                       Notification(ProfileUser(tickets[id].release_profile),
                                    "ticket_status", 0))
                /\ Handled([request EXCEPT
                               !.profile = tickets[id].release_profile,
                               !.outcome = "saved"])
           ELSE refused("400")
        /\ UNCHANGED <<risk_level, assigned_case_worker, checkins,
                       latest_submitted, is_completed, timeline, calls>>

\* update_ticket_status, POST by a case worker for a ticket that exists
\* with a status of STATUS_CHOICES.
update_ticket_status(id, new_status) ==
    /\ id \in DOMAIN tickets
    /\ tickets[id] # DeletedTicket
    /\ new_status \in STATUS_CHOICES
    /\ update_ticket_status_by(CaseWorker, id, new_status)

\* mark_profile_completed, POST by a case worker, handled with no other
\* request in between: the profile row is read, is_completed is set and
\* the whole row is written back (the risk level as it was read), then the
\* beneficiary is notified.
mark_profile_completed(p) ==
    /\ CaseWorker \notin deleted_users
    /\ is_completed' = [is_completed EXCEPT ![p] = TRUE]
    /\ risk_level' = [risk_level EXCEPT ![p] = risk_level[p]]
    /\ notifications' = Append(notifications,
           Notification(ProfileUser(p), "completed", 0))
    /\ Handled(Request("mark_profile_completed", p, "saved"))
    /\ UNCHANGED <<assigned_case_worker, checkins, tickets,
                   latest_submitted, timeline, calls>>

\* ReleaseProfileViewSet, PATCH /api/profiles/<id>/ with is_completed: the
\* field is writable in ReleaseProfileSerializer and is stored as sent.
partial_update(p, completed) ==
    /\ is_completed' = [is_completed EXCEPT ![p] = completed]
    /\ Handled(Request("partial_update", p, "saved"))
    /\ UNCHANGED <<risk_level, assigned_case_worker, checkins, tickets,
                   notifications, latest_submitted, timeline, calls>>

\* mark_notification_read, POST by the user the notification is for, and
\* NotificationViewSet.mark_read, POST /api/notifications/<id>/mark_read/:
\* is_read is set.
mark_notification_read(id) ==
    /\ id \in DOMAIN notifications
    /\ notifications[id] # DeletedNotification
    /\ notifications' = [notifications EXCEPT ![id].is_read = TRUE]
    /\ Handled(Request("mark_notification_read", 0, "saved"))
    /\ UNCHANGED <<risk_level, assigned_case_worker, checkins, tickets,
                   latest_submitted, is_completed, timeline, calls>>

mark_read(id) ==
    /\ id \in DOMAIN notifications
    /\ notifications[id] # DeletedNotification
    /\ notifications' = [notifications EXCEPT ![id].is_read = TRUE]
    /\ Handled(Request("mark_read", 0, "saved"))
    /\ UNCHANGED <<risk_level, assigned_case_worker, checkins, tickets,
                   latest_submitted, is_completed, timeline, calls>>

\* NotificationViewSet, PATCH /api/notifications/<id>/: user, message and
\* is_read are writable in NotificationSerializer; the fields sent are
\* stored.
partial_update_notification(id, fields) ==
    /\ id \in DOMAIN notifications
    /\ notifications[id] # DeletedNotification
    /\ notifications' =
          [notifications EXCEPT ![id] =
              [f \in DOMAIN @ |-> IF f \in DOMAIN fields THEN fields[f] ELSE @[f]]]
    /\ Handled(Request("partial_update_notification", 0, "saved"))
    /\ UNCHANGED <<risk_level, assigned_case_worker, checkins, tickets,
                   latest_submitted, is_completed, timeline, calls>>

\* ------------------------------------- process_checkin, one store operation at a time
\* Two calls of process_checkin for one profile, each advancing by one
\* database operation per step: the profile row is loaded, the risk level
\* is saved, and for each triggered rule get_or_create first SELECTs the
\* open automatic ticket and, finding none, INSERTs one, after which the
\* alert of the rule is inserted; the beneficiary notification is the last
\* insert.
CallIds == {1, 2}

CallProfile == CHOOSE p \in ActiveProfiles : TRUE

RuleTypes == << "psychological", "housing", "job", "social" >>

IdleCall(m, c) ==
    [at |-> "idle", profile |-> CallProfile, rule |-> 0, month_index |-> m,
     checkin |-> c,
     old_risk_level |-> "none", new_risk_level |-> "none", worker |-> NoUser,
     is_completed |-> FALSE, saved |-> FALSE, created_tickets |-> <<>>, retry |-> FALSE]

NoCalls == [k \in CallIds |-> IdleCall(0, NoCheckin)]

\* The rules of a call that are triggered, from rule i on.
TriggeredFrom(call, i) ==
    { j \in i..Len(RuleTypes) : RuleTriggered(call.checkin, RuleTypes[j]) }

\* process_checkin with the rules run before the risk level is saved.
StepOrder_save_last(step) ==
    CASE step = "load" -> "rules"
      [] step = "rules" -> "save"
      [] step = "save" -> "finish"

\* The order of process_checkin: the profile is loaded, the level is saved
\* (lines 70-72), the four rules run (74-146), the beneficiary is notified
\* and the dict returned (148-166).
StepOrder(step) ==
    CASE step = "load" -> "save"
      [] step = "save" -> "rules"
      [] step = "rules" -> "finish"

\* Where a call stands when it enters a part of process_checkin that has a
\* database operation to do.
AtPart(call, part) ==
    CASE part = "save" -> [call EXCEPT !.at = "save", !.rule = 0]
      [] part = "rules" ->
            [call EXCEPT !.at = "get",
                         !.rule = CHOOSE j \in TriggeredFrom(call, 1) :
                                     \A n \in TriggeredFrom(call, 1) : j <= n]
      [] part = "finish" ->
            [call EXCEPT
               !.at = IF call.old_risk_level # call.new_risk_level
                      THEN "tier_notice" ELSE "done",
               !.rule = 0]

\* The call after `step` is over: the next part, the rules being passed
\* over when none is triggered.
After(call, step) ==
    LET part == StepOrder(step)
    IN  IF part = "rules" /\ TriggeredFrom(call, 1) = {}
        THEN AtPart(call, StepOrder("rules"))
        ELSE AtPart(call, part)

\* The call after rule i is over: the next triggered rule, or what follows
\* the rules.
AfterRule(call, i) ==
    IF TriggeredFrom(call, i + 1) # {}
    THEN [call EXCEPT !.at = "get",
                      !.rule = CHOOSE j \in TriggeredFrom(call, i + 1) :
                                  \A n \in TriggeredFrom(call, i + 1) : j <= n]
    ELSE After(call, "rules")

ConcurrentFrame ==
    UNCHANGED <<assigned_case_worker, checkins, latest_submitted, last, prev,
                before, nops, timeline, deleted_users>>

\* Lines 64-68: the profile row is read; a call that starts after the other
\* call failed, on the same content, is the caller's retry.
Load(k) ==
    /\ calls[k].at = "idle"
    /\ LET loaded ==
             [calls[k] EXCEPT
                !.old_risk_level = risk_level[calls[k].profile],
                !.new_risk_level = calculate_risk_level(calls[k].checkin),
                !.worker = assigned_case_worker[calls[k].profile],
                !.is_completed = is_completed[calls[k].profile],
                !.retry = \E o \in CallIds \ {k} :
                             /\ calls[o].at = "failed"
                             /\ calls[o].profile = calls[k].profile
                             /\ calls[o].checkin = calls[k].checkin]
       IN  calls' = [calls EXCEPT ![k] = After(loaded, "load")]
    /\ UNCHANGED <<risk_level, tickets, notifications, is_completed>>
    /\ ConcurrentFrame

\* profile.save() writing the level to the row of every profile.
Save_every_profile(k) ==
    /\ calls[k].at = "save"
    /\ risk_level' = [p \in Profiles |-> calls[k].new_risk_level]
    /\ is_completed' = [p \in Profiles |-> calls[k].is_completed]
    /\ calls' = [calls EXCEPT ![k] = After([calls[k] EXCEPT !.saved = TRUE], "save")]
    /\ UNCHANGED <<tickets, notifications>>
    /\ ConcurrentFrame

\* Lines 70-72: profile.save(), without update_fields: every column of the
\* row is written with the value the object carries, the risk level just
\* assigned and the other fields as they were loaded.
Save(k) ==
    /\ calls[k].at = "save"
    /\ risk_level' = [risk_level EXCEPT ![calls[k].profile] = calls[k].new_risk_level]
    /\ is_completed' = [is_completed EXCEPT ![calls[k].profile] = calls[k].is_completed]
    /\ calls' = [calls EXCEPT ![k] = After([calls[k] EXCEPT !.saved = TRUE], "save")]
    /\ UNCHANGED <<tickets, notifications>>
    /\ ConcurrentFrame

\* get_or_create, the SELECT: one row is the ticket, several rows raise
\* MultipleObjectsReturned, no row leads to the INSERT.
Get(k) ==
    /\ calls[k].at = "get"
    /\ LET matching == OpenAutoTickets(tickets, calls[k].profile,
                                       RuleTypes[calls[k].rule])
       IN  calls' = [calls EXCEPT ![k] =
               IF Cardinality(matching) > 1 THEN [@ EXCEPT !.at = "raised"]
               ELSE IF Cardinality(matching) = 1 THEN AfterRule(@, @.rule)
               ELSE [@ EXCEPT !.at = "create"]]
    /\ UNCHANGED <<risk_level, tickets, notifications, is_completed>>
    /\ ConcurrentFrame

\* get_or_create, the INSERT, made on what the SELECT found.
Create(k) ==
    /\ calls[k].at = "create"
    /\ LET t == RuleTypes[calls[k].rule]
           created == [calls[k] EXCEPT
                          !.created_tickets = Append(@, Len(tickets) + 1)]
       IN  /\ tickets' = Append(tickets,
                  SupportTicket(calls[k].profile, NoUser, t, "open",
                                AutoNotes(t, calls[k].month_index), TRUE))
           /\ calls' = [calls EXCEPT ![k] =
                  IF AlertsCaseWorker(t) /\ calls[k].worker # NoUser
                  THEN [created EXCEPT !.at = "notify"]
                  ELSE AfterRule(created, created.rule)]
    /\ UNCHANGED <<risk_level, notifications, is_completed>>
    /\ ConcurrentFrame

\* Lines 91-97 and 112-118: the alert to the assigned case worker.
Notify(k) ==
    /\ calls[k].at = "notify"
    /\ notifications' = Append(notifications,
           Notification(calls[k].worker, RuleTypes[calls[k].rule],
                        calls[k].profile))
    /\ calls' = [calls EXCEPT ![k] = AfterRule(@, @.rule)]
    /\ UNCHANGED <<risk_level, tickets, is_completed>>
    /\ ConcurrentFrame

\* Lines 149-159: the notification to the beneficiary.
TierNotice(k) ==
    /\ calls[k].at = "tier_notice"
    /\ notifications' = Append(notifications,
           Notification(ProfileUser(calls[k].profile),
                        risk_messages[calls[k].new_risk_level], 0))
    /\ calls' = [calls EXCEPT ![k].at = "done"]
    /\ UNCHANGED <<risk_level, tickets, is_completed>>
    /\ ConcurrentFrame

\* The call is cut short (the worker process dies, the database connection
\* drops) right after profile.save(), before its next database operation.
Crash(k) ==
    /\ calls[k].saved
    /\ calls[k].created_tickets = <<>>
    /\ \/ calls[k].at = "tier_notice" /\ TriggeredFrom(calls[k], 1) = {}
       \/ /\ calls[k].at = "get"
          /\ \A j \in TriggeredFrom(calls[k], 1) : calls[k].rule <= j
    /\ calls' = [calls EXCEPT ![k].at = "failed"]
    /\ UNCHANGED <<risk_level, tickets, notifications, is_completed>>
    /\ ConcurrentFrame

\* mark_profile_completed, one database operation at a time, beside a call
\* of process_checkin for the same profile. The record of the view keeps
\* the row it read: the risk level in old_risk_level, the flag in
\* is_completed.
\* Line 424: get_object_or_404 reads the profile row.
MarkLoad(k) ==
    /\ calls[k].at = "idle"
    /\ calls' = [calls EXCEPT ![k] =
           [@ EXCEPT !.at = "mark_save",
                     !.old_risk_level = risk_level[calls[k].profile],
                     !.new_risk_level = risk_level[calls[k].profile],
                     !.is_completed = TRUE]]
    /\ UNCHANGED <<risk_level, tickets, notifications, is_completed>>
    /\ ConcurrentFrame

\* Lines 425-426: is_completed = True on the object, then profile.save()
\* without update_fields: the risk level that was read is written too.
MarkSave(k) ==
    /\ calls[k].at = "mark_save"
    /\ is_completed' = [is_completed EXCEPT ![calls[k].profile] = calls[k].is_completed]
    /\ risk_level' = [risk_level EXCEPT ![calls[k].profile] = calls[k].new_risk_level]
    /\ calls' = [calls EXCEPT ![k] = [@ EXCEPT !.at = "mark_notify", !.saved = TRUE]]
    /\ UNCHANGED <<tickets, notifications>>
    /\ ConcurrentFrame

\* Lines 429-433: the notification to the beneficiary.
MarkNotify(k) ==
    /\ calls[k].at = "mark_notify"
    /\ notifications' = Append(notifications,
           Notification(ProfileUser(calls[k].profile), "completed", 0))
    /\ calls' = [calls EXCEPT ![k].at = "done"]
    /\ UNCHANGED <<risk_level, tickets, is_completed>>
    /\ ConcurrentFrame

\* ReleaseProfileViewSet.risk_summary, GET /api/profiles/<id>/risk_summary/:
\* get_risk_summary(profile) is returned; nothing is written.
risk_summary(p) ==
    /\ Handled([Request("risk_summary", p, "returned") EXCEPT
                    !.summary = get_risk_summary(risk_level[p], checkins[p])])
    /\ UNCHANGED <<risk_level, assigned_case_worker, checkins, tickets,
                   notifications, latest_submitted, is_completed, timeline, calls>>

\* ReleaseProfileViewSet, PATCH /api/profiles/<id>/ with risk_level: the
\* field is writable in ReleaseProfileSerializer and is stored as sent.
partial_update_risk_level(p, level) ==
    /\ level \in RISK_LEVEL_CHOICES
    /\ risk_level' = [risk_level EXCEPT ![p] = level]
    /\ Handled(Request("partial_update", p, "saved"))
    /\ UNCHANGED <<assigned_case_worker, checkins, tickets, notifications,
                   latest_submitted, is_completed, timeline, calls>>

\* beneficiary_messages, POST by the beneficiary of profile p: a
\* notification for the assigned case worker when there is one; no ticket.
beneficiary_messages(p) ==
    /\ notifications' =
          IF assigned_case_worker[p] # NoUser
          THEN Append(notifications,
                   Notification(assigned_case_worker[p],
                                "message_from_beneficiary", p))
          ELSE notifications
    /\ Handled(Request("beneficiary_messages", p, "sent"))
    /\ UNCHANGED <<risk_level, assigned_case_worker, checkins, tickets,
                   latest_submitted, is_completed, timeline, calls>>

\* ReleaseProfileViewSet, PATCH /api/profiles/<id>/ with
\* assigned_case_worker: the field is writable and is stored as sent.
partial_update_assigned_case_worker(p, worker) ==
    /\ worker \notin deleted_users
    /\ assigned_case_worker' = [assigned_case_worker EXCEPT ![p] = worker]
    /\ Handled(Request("partial_update", p, "saved"))
    /\ UNCHANGED <<risk_level, checkins, tickets, notifications,
                   latest_submitted, is_completed, timeline, calls>>

\* ReleaseProfileViewSet, DELETE /api/profiles/<id>/: the row goes, and with
\* it the check-ins and the tickets of the profile (on_delete CASCADE);
\* notifications belong to users and stay.
destroy_profile(p) ==
    /\ risk_level' = [risk_level EXCEPT ![p] = DeletedProfile]
    /\ assigned_case_worker' = [assigned_case_worker EXCEPT ![p] = NoUser]
    /\ is_completed' = [is_completed EXCEPT ![p] = FALSE]
    /\ checkins' = [checkins EXCEPT ![p] = [m \in MonthIndexes |-> NoCheckin]]
    /\ tickets' = [id \in DOMAIN tickets |->
                      IF tickets[id].release_profile = p
                      THEN DeletedTicket ELSE tickets[id]]
    /\ Handled(Request("destroy_profile", p, "deleted"))
    /\ UNCHANGED <<notifications, latest_submitted, timeline, calls>>

\* MonthlyCheckinViewSet, DELETE /api/checkins/<id>/: the row goes;
\* process_checkin is not called.
destroy_checkin(p, m) ==
    /\ checkins[p][m] # NoCheckin
    /\ checkins' = [checkins EXCEPT ![p][m] = NoCheckin]
    /\ Handled([Request("destroy_checkin", p, "deleted") EXCEPT
                    !.month_index = m])
    /\ UNCHANGED <<risk_level, assigned_case_worker, tickets, notifications,
                   latest_submitted, is_completed, timeline, calls>>

\* SupportTicketViewSet, PUT or PATCH /api/tickets/<id>/: the fields sent
\* are stored; nobody is notified.
partial_update_ticket(id, fields) ==
    /\ id \in DOMAIN tickets
    /\ tickets[id] # DeletedTicket
    /\ tickets' =
          [tickets EXCEPT ![id] =
              [f \in DOMAIN @ |-> IF f \in DOMAIN fields THEN fields[f] ELSE @[f]]]
    /\ Handled([Request("partial_update_ticket", tickets[id].release_profile,
                         "saved") EXCEPT !.ticket_id = id])
    /\ UNCHANGED <<risk_level, assigned_case_worker, checkins, notifications,
                   latest_submitted, is_completed, timeline, calls>>

\* SupportTicketViewSet, DELETE /api/tickets/<id>/.
destroy_ticket(id) ==
    /\ id \in DOMAIN tickets
    /\ tickets[id] # DeletedTicket
    /\ tickets' = [tickets EXCEPT ![id] = DeletedTicket]
    /\ Handled([Request("destroy_ticket", tickets[id].release_profile,
                         "deleted") EXCEPT !.ticket_id = id])
    /\ UNCHANGED <<risk_level, assigned_case_worker, checkins, notifications,
                   latest_submitted, is_completed, timeline, calls>>

\* NotificationViewSet, POST /api/notifications/: a row with the user and
\* the message sent; is_read defaults to False.
api_create_notification(user) ==
    /\ user \notin deleted_users
    /\ notifications' = Append(notifications, Notification(user, "posted", 0))
    /\ Handled(Request("api_create_notification", 0, "created"))
    /\ UNCHANGED <<risk_level, assigned_case_worker, checkins, tickets,
                   latest_submitted, is_completed, timeline, calls>>

\* NotificationViewSet, DELETE /api/notifications/<id>/.
destroy_notification(id) ==
    /\ id \in DOMAIN notifications
    /\ notifications[id] # DeletedNotification
    /\ notifications' = [notifications EXCEPT ![id] = DeletedNotification]
    /\ Handled(Request("destroy_notification", 0, "deleted"))
    /\ UNCHANGED <<risk_level, assigned_case_worker, checkins, tickets,
                   latest_submitted, is_completed, timeline, calls>>

\* UserViewSet, DELETE /api/users/<id>/: the row goes, and with it the
\* notifications of the user and, for a beneficiary, the profile with its
\* check-ins and tickets (on_delete CASCADE); a profile the user was the
\* case worker of and a ticket the user created are kept without the user
\* (on_delete SET_NULL).
destroy_user(user) ==
    LET owned(p) == user.role = "beneficiary" /\ user = ProfileUser(p)
    IN  /\ user \notin deleted_users
        /\ deleted_users' = deleted_users \cup {user}
        /\ notifications' = [id \in DOMAIN notifications |->
                                IF notifications[id].user = user
                                THEN DeletedNotification ELSE notifications[id]]
        /\ risk_level' = [p \in Profiles |->
                             IF owned(p) THEN DeletedProfile ELSE risk_level[p]]
        /\ assigned_case_worker' = [p \in Profiles |->
                             IF owned(p) \/ assigned_case_worker[p] = user
                             THEN NoUser ELSE assigned_case_worker[p]]
        /\ is_completed' = [p \in Profiles |-> ~owned(p) /\ is_completed[p]]
        /\ checkins' = [p \in Profiles |->
                           IF owned(p) THEN [m \in MonthIndexes |-> NoCheckin]
                           ELSE checkins[p]]
        /\ tickets' = [id \in DOMAIN tickets |->
                          IF tickets[id] # DeletedTicket
                             /\ owned(tickets[id].release_profile)
                          THEN DeletedTicket
                          ELSE IF tickets[id].created_by = user
                          THEN [tickets[id] EXCEPT !.created_by = NoUser]
                          ELSE tickets[id]]
        /\ Counted([Request("destroy_user", 0, "deleted") EXCEPT !.user = user])
        /\ UNCHANGED <<latest_submitted, timeline, calls>>

\* ------------------------------------------------------ follow-up dates
\* ReleaseProfile.save with the end date always computed from the release
\* date.
ReleaseProfile_save_recomputed(release_date, end_of_followup_date) ==
    IF release_date # <<>>
    THEN << release_date[1] + 365 >>
    ELSE end_of_followup_date

\* ReleaseProfile.save: the end of the follow-up that is stored. It is
\* release_date + timedelta(days=365) when a release date is present and no
\* end date is set, and the end date the object carries otherwise.
ReleaseProfile_save(release_date, end_of_followup_date) ==
    IF release_date # <<>> /\ end_of_followup_date = <<>>
    THEN << release_date[1] + 365 >>
    ELSE end_of_followup_date

\* A request that saves the profile after assigning the dates given.
SaveDates(op, release_date, end_of_followup_date) ==
    /\ timeline' =
          [timeline EXCEPT
             !.release_date = release_date,
             !.end_of_followup_date =
                 ReleaseProfile_save(release_date, end_of_followup_date)]
    /\ Handled(Request(op, CallProfile, "saved"))
    /\ UNCHANGED <<risk_level, assigned_case_worker, checkins, tickets,
                   notifications, latest_submitted, is_completed, calls>>

\* profile.save() with the dates as they are: process_checkin and
\* mark_profile_completed save the whole profile.
save_profile ==
    SaveDates("save", timeline.release_date, timeline.end_of_followup_date)

\* PATCH /api/profiles/<id>/ {release_date: d}: release_date is writable in
\* ReleaseProfileSerializer.
partial_update_release_date(d) ==
    SaveDates("partial_update_release_date", <<d>>,
              timeline.end_of_followup_date)

\* PATCH /api/profiles/<id>/ {end_of_followup_date: e}: the end date set
\* by hand.
partial_update_end_of_followup_date(e) ==
    SaveDates("partial_update_end_of_followup_date", timeline.release_date,
              <<e>>)

\* -------------------------------------------------------- specification
\* The database after intake: every profile has the default risk level, no
\* check-in, no ticket, no notification; a profile may have a case worker.
Init ==
    /\ risk_level = [p \in Profiles |-> "green"]
    /\ assigned_case_worker \in [Profiles -> {NoUser, CaseWorker}]
    /\ \A p \in Profiles \ ActiveProfiles : assigned_case_worker[p] = NoUser
    /\ checkins = [p \in Profiles |-> [m \in MonthIndexes |-> NoCheckin]]
    /\ tickets = <<>>
    /\ notifications = <<>>
    /\ latest_submitted = [p \in Profiles |-> 0]
    /\ is_completed = [p \in Profiles |-> FALSE]
    /\ timeline = NoTimeline
    /\ calls = NoCalls
    /\ last = NoRequest
    /\ prev = NoRequest
    /\ before = Tables
    /\ nops = 0
    /\ deleted_users = {}

Next ==
    \/ \E p \in ActiveProfiles, m \in MonthInputs, c \in CheckinInputs :
          checkin_form(p, m, c)
    \/ \E p \in ActiveProfiles, m \in MonthInputs, c \in CheckinInputs :
          perform_create(p, m, c)
    \/ \E p \in ActiveProfiles, m \in MonthInputs, c \in EditInputs :
          perform_update(p, m, c)
    \/ \E p \in ActiveProfiles, t \in TicketTypeInputs :
          create_ticket(p, t)
    \/ \E p \in ActiveProfiles, t \in TicketTypeInputs :
          api_create_ticket(p, t, "open", TRUE)
    \/ \E id \in DOMAIN tickets, s \in TicketStatusInputs :
          update_ticket_status(id, s)

Spec == Init /\ [][Next]_vars

\* calculate_risk_level applied to every combination of field choices.
InitClassify ==
    /\ Init
    /\ assigned_case_worker = [p \in Profiles |-> NoUser]

Classify(c) ==
    /\ last' = [NoRequest EXCEPT !.op = "calculate_risk_level", !.checkin = c,
                                 !.outcome = "returned",
                                 !.new_risk_level = calculate_risk_level(c)]
    /\ UNCHANGED <<risk_level, assigned_case_worker, checkins, tickets,
                   notifications, latest_submitted, prev, before, nops,
                   is_completed, timeline, calls, deleted_users>>

NextClassify == \E c \in CheckinFields : Classify(c)

SpecClassify == InitClassify /\ [][NextClassify]_vars

\* The requests of Spec together with the two that write is_completed.
NextProfile ==
    \/ Next
    \/ \E p \in ActiveProfiles : mark_profile_completed(p)
    \/ \E p \in ActiveProfiles, completed \in BOOLEAN :
          partial_update(p, completed)

SpecProfile == Init /\ [][NextProfile]_vars

\* Fields sent when a notification is edited through the API.
NotificationEditInputs ==
    { [is_read |-> FALSE],
      [message |-> [template |-> "edited", profile |-> 0]] }

\* Fields sent when a ticket is edited through the API.
TicketEditInputs ==
    { [status |-> "resolved"], [is_auto_generated |-> TRUE] }

\* The requests of SpecProfile together with the views and the endpoints
\* of the router that write or read the profiles, check-ins, tickets and
\* notifications: the messaging view, the summary, the two ways of reading
\* a notification, and create, update and delete of the four ModelViewSets
\* (a profile cannot be created through the API: user is read-only in
\* ReleaseProfileSerializer and the column is NOT NULL), and the delete of
\* the UserViewSet. Creating or editing a user and the endpoints of the job
\* opportunities write none of these tables and are not among the requests.
NextApi ==
    \/ NextProfile
    \/ \E user \in {ProfileUser(p) : p \in ActiveProfiles} \cup {CaseWorker} :
          destroy_user(user)
    \/ \E p \in ActiveProfiles : beneficiary_messages(p)
    \/ \E p \in ActiveProfiles, worker \in {NoUser, CaseWorker} :
          partial_update_assigned_case_worker(p, worker)
    \/ \E p \in ActiveProfiles : destroy_profile(p)
    \/ \E p \in ActiveProfiles, m \in MonthInputs : destroy_checkin(p, m)
    \/ \E id \in DOMAIN tickets, fields \in TicketEditInputs :
          partial_update_ticket(id, fields)
    \/ \E id \in DOMAIN tickets : destroy_ticket(id)
    \/ \E user \in {ProfileUser(p) : p \in ActiveProfiles} \cup {CaseWorker} :
          api_create_notification(user)
    \/ \E id \in DOMAIN notifications : destroy_notification(id)
    \/ \E p \in ActiveProfiles, level \in RiskLevelInputs :
          partial_update_risk_level(p, level)
    \/ \E p \in ActiveProfiles : risk_summary(p)
    \/ \E id \in DOMAIN notifications : mark_notification_read(id)
    \/ \E id \in DOMAIN notifications : mark_read(id)
    \/ \E id \in DOMAIN notifications, fields \in NotificationEditInputs :
          partial_update_notification(id, fields)

SpecApi == Init /\ [][NextApi]_vars

\* The requests of Spec together with submissions that are not valid, sent
\* through the form and through the API.
NextInvalid ==
    \/ Next
    \/ \E p \in ActiveProfiles, sub \in InvalidSubmissions :
          checkin_form(p, sub[1], sub[2])
    \/ \E p \in ActiveProfiles, sub \in InvalidSubmissions :
          create(p, sub[1], sub[2])

SpecInvalid == Init /\ [][NextInvalid]_vars

\* Check-ins submitted through the form, the risk level written through the
\* API, and the summary read.
NextSummary ==
    \/ \E p \in ActiveProfiles, m \in MonthInputs, c \in CheckinInputs :
          checkin_form(p, m, c)
    \/ \E p \in ActiveProfiles, level \in RiskLevelInputs :
          partial_update_risk_level(p, level)
    \/ \E p \in ActiveProfiles : risk_summary(p)

SpecSummary == Init /\ [][NextSummary]_vars

\* Two check-ins of the active profile, of months 1 and 2, are stored and
\* process_checkin is called on each; the calls interleave.
InitConcurrent ==
    /\ risk_level = [p \in Profiles |-> "green"]
    /\ assigned_case_worker \in [Profiles -> {NoUser, CaseWorker}]
    /\ \A p \in Profiles \ ActiveProfiles : assigned_case_worker[p] = NoUser
    /\ calls \in [CallIds -> { IdleCall(m, c) : m \in MonthInputs, c \in CheckinInputs }]
    /\ \A k \in CallIds : calls[k].month_index = k
    /\ checkins = [p \in Profiles |-> [m \in MonthIndexes |->
                       IF p = CallProfile /\ m \in CallIds
                       THEN calls[m].checkin ELSE NoCheckin]]
    /\ tickets = <<>>
    /\ notifications = <<>>
    /\ latest_submitted = [p \in Profiles |-> IF p = CallProfile THEN 2 ELSE 0]
    /\ is_completed = [p \in Profiles |-> FALSE]
    /\ timeline = NoTimeline
    /\ last = NoRequest
    /\ prev = NoRequest
    /\ before = Tables
    /\ nops = 0
    /\ deleted_users = {}

NextConcurrent ==
    \E k \in CallIds :
        \/ Load(k)
        \/ Save(k)
        \/ Get(k)
        \/ Create(k)
        \/ Notify(k)
        \/ TierNotice(k)
        \/ Crash(k)

SpecConcurrent == InitConcurrent /\ [][NextConcurrent]_vars

\* Tickets opened by the case worker, and update_ticket_status called by
\* case workers and admins with statuses in and outside STATUS_CHOICES, for
\* tickets that exist and one that does not, and by users who are neither.
AuthorizedUserInputs == {CaseWorker, Admin}

UnauthorizedUserInputs == {ProfileUser(1), NoUser}

NextTickets ==
    \/ \E p \in ActiveProfiles, t \in TicketTypeInputs :
          create_ticket(p, t)
    \/ \E user \in AuthorizedUserInputs, id \in 1..(Len(tickets) + 1),
          s \in STATUS_CHOICES \cup InvalidStatusInputs :
          update_ticket_status_by(user, id, s)
    \/ \E user \in UnauthorizedUserInputs, id \in DOMAIN tickets,
          s \in TicketStatusInputs :
          update_ticket_status_by(user, id, s)

SpecTickets == Init /\ [][NextTickets]_vars

\* One call of process_checkin and one request mark_profile_completed for
\* the same profile, each one database operation at a time, in every
\* order of their operations.
CompletingCall == CHOOSE k \in CallIds : TRUE

MarkingCall == CHOOSE k \in CallIds : k # CompletingCall

InitCompleting ==
    /\ risk_level = [p \in Profiles |-> "green"]
    /\ assigned_case_worker \in [Profiles -> {NoUser, CaseWorker}]
    /\ \A p \in Profiles \ ActiveProfiles : assigned_case_worker[p] = NoUser
    /\ calls \in [CallIds -> { IdleCall(m, c) :
                                  m \in {0, 1}, c \in CheckinInputs \cup {NoCheckin} }]
    /\ calls[CompletingCall].month_index = 1
    /\ calls[CompletingCall].checkin \in CheckinInputs
    /\ calls[MarkingCall] = IdleCall(0, NoCheckin)
    /\ checkins = [p \in Profiles |-> [m \in MonthIndexes |->
                       IF p = CallProfile /\ m = 1
                       THEN calls[CompletingCall].checkin ELSE NoCheckin]]
    /\ tickets = <<>>
    /\ notifications = <<>>
    /\ latest_submitted = [p \in Profiles |-> IF p = CallProfile THEN 1 ELSE 0]
    /\ is_completed = [p \in Profiles |-> FALSE]
    /\ timeline = NoTimeline
    /\ last = NoRequest
    /\ prev = NoRequest
    /\ before = Tables
    /\ nops = 0
    /\ deleted_users = {}

NextCompleting ==
    \/ Load(CompletingCall)
    \/ Save(CompletingCall)
    \/ Get(CompletingCall)
    \/ Create(CompletingCall)
    \/ Notify(CompletingCall)
    \/ TierNotice(CompletingCall)
    \/ MarkLoad(MarkingCall)
    \/ MarkSave(MarkingCall)
    \/ MarkNotify(MarkingCall)

SpecCompleting == InitCompleting /\ [][NextCompleting]_vars

\* Two calls of process_checkin, one for each of two profiles, for the
\* check-in of month 1 of each, interleaved one database operation at a
\* time; the profiles have the same case worker, different ones or none.
InitTwoCases ==
    /\ risk_level = [p \in Profiles |-> "green"]
    /\ assigned_case_worker \in [Profiles -> {NoUser, CaseWorker}]
    /\ calls \in [CallIds -> { [IdleCall(1, c) EXCEPT !.profile = p] :
                                  p \in Profiles, c \in CheckinInputs }]
    /\ \A k \in CallIds : calls[k].profile = k
    /\ checkins = [p \in Profiles |-> [m \in MonthIndexes |->
                       IF m = 1 THEN calls[p].checkin ELSE NoCheckin]]
    /\ tickets = <<>>
    /\ notifications = <<>>
    /\ latest_submitted = [p \in Profiles |-> 1]
    /\ is_completed = [p \in Profiles |-> FALSE]
    /\ timeline = NoTimeline
    /\ last = NoRequest
    /\ prev = NoRequest
    /\ before = Tables
    /\ nops = 0
    /\ deleted_users = {}

SpecTwoCases == InitTwoCases /\ [][NextConcurrent]_vars

\* current_month and progress_percentage read once, for a profile with any
\* release date (or none) on any day.
Days == 0..MaxDay

ReleaseDates == {<<>>} \cup { <<d>> : d \in Days }

InitTimeline ==
    /\ risk_level = [p \in Profiles |-> "green"]
    /\ assigned_case_worker = [p \in Profiles |-> NoUser]
    /\ checkins = [p \in Profiles |-> [m \in MonthIndexes |-> NoCheckin]]
    /\ tickets = <<>>
    /\ notifications = <<>>
    /\ latest_submitted = [p \in Profiles |-> 0]
    /\ is_completed = [p \in Profiles |-> FALSE]
    /\ timeline \in [release_date : ReleaseDates,
                      end_of_followup_date : {<<>>}, today : Days,
                      current_month : {0}, progress_percentage : {0},
                      read : {FALSE}]
    /\ calls = NoCalls
    /\ last = NoRequest
    /\ prev = NoRequest
    /\ before = Tables
    /\ nops = 0
    /\ deleted_users = {}

ReadTimeline ==
    /\ ~timeline.read
    /\ timeline' =
          [timeline EXCEPT
             !.current_month = current_month(timeline.release_date, timeline.today),
             !.progress_percentage =
                 progress_percentage(
                     current_month(timeline.release_date, timeline.today)),
             !.read = TRUE]
    /\ UNCHANGED <<risk_level, assigned_case_worker, checkins, tickets,
                   notifications, latest_submitted, last, prev, before, nops,
                   is_completed, calls, deleted_users>>

NextTimeline == ReadTimeline

SpecTimeline == InitTimeline /\ [][NextTimeline]_vars

\* A profile constructed with a release date and no end date, as in
\* seed_data, then saved, edited and saved again.
ReleaseDateInputs == {0, 30}

EndDateInputs == {365, 500}

InitFollowup ==
    /\ risk_level = [p \in Profiles |-> "green"]
    /\ assigned_case_worker = [p \in Profiles |-> NoUser]
    /\ checkins = [p \in Profiles |-> [m \in MonthIndexes |-> NoCheckin]]
    /\ tickets = <<>>
    /\ notifications = <<>>
    /\ latest_submitted = [p \in Profiles |-> 0]
    /\ is_completed = [p \in Profiles |-> FALSE]
    /\ timeline \in [release_date : { <<d>> : d \in Days },
                      end_of_followup_date : {<<>>}, today : {0},
                      current_month : {0}, progress_percentage : {0},
                      read : {FALSE}]
    /\ calls = NoCalls
    /\ last = NoRequest
    /\ prev = NoRequest
    /\ before = Tables
    /\ nops = 0
    /\ deleted_users = {}

NextFollowup ==
    \/ save_profile
    \/ \E d \in ReleaseDateInputs : partial_update_release_date(d)
    \/ \E e \in EndDateInputs : partial_update_end_of_followup_date(e)

SpecFollowup == InitFollowup /\ [][NextFollowup]_vars

\* The database after seed_data, for its third beneficiary (profile 1 here):
\* risk level red, a case worker, the check-in of month 1, an open automatic
\* psychological and housing ticket, an open manual social ticket, and the
\* alert the command stores for a case worker.
SeedNotes == [text |-> "seed", month |-> 0]

InitSeeded ==
    /\ risk_level =
           [p \in Profiles |-> IF p \in ActiveProfiles THEN "red" ELSE "green"]
    /\ assigned_case_worker =
           [p \in Profiles |-> IF p \in ActiveProfiles THEN CaseWorker ELSE NoUser]
    /\ checkins =
           [p \in Profiles |-> [m \in MonthIndexes |->
               IF p \in ActiveProfiles /\ m = 1
               THEN Checkin("temporary", "unemployed", "bad", "problematic")
               ELSE NoCheckin]]
    /\ tickets =
           << SupportTicket(1, NoUser, "psychological", "open", SeedNotes, TRUE),
              SupportTicket(1, NoUser, "housing", "open", SeedNotes, TRUE),
              SupportTicket(1, CaseWorker, "social", "open", SeedNotes, FALSE) >>
    /\ notifications = << Notification(CaseWorker, "psychological", 1) >>
    /\ latest_submitted =
           [p \in Profiles |-> IF p \in ActiveProfiles THEN 1 ELSE 0]
    /\ is_completed = [p \in Profiles |-> FALSE]
    /\ timeline = NoTimeline
    /\ calls = NoCalls
    /\ last = NoRequest
    /\ prev = NoRequest
    /\ before = Tables
    /\ nops = 0
    /\ deleted_users = {}

SpecSeeded == InitSeeded /\ [][Next]_vars

\* The database after seed_data, for its second beneficiary (profile 1
\* here): risk level yellow, a case worker, the check-ins of months 1 and 2,
\* an automatic job ticket in progress and the notification the command
\* stores for the beneficiary.
InitSeededJob ==
    /\ risk_level =
           [p \in Profiles |-> IF p \in ActiveProfiles THEN "yellow" ELSE "green"]
    /\ assigned_case_worker =
           [p \in Profiles |-> IF p \in ActiveProfiles THEN CaseWorker ELSE NoUser]
    /\ checkins =
           [p \in Profiles |-> [m \in MonthIndexes |->
               IF p \in ActiveProfiles /\ m = 1
               THEN Checkin("with_family", "searching", "moderate", "supportive")
               ELSE IF p \in ActiveProfiles /\ m = 2
               THEN Checkin("with_family", "unemployed", "stressed", "supportive")
               ELSE NoCheckin]]
    /\ tickets =
           << SupportTicket(1, NoUser, "job", "in_progress", SeedNotes, TRUE) >>
    /\ notifications = << Notification(ProfileUser(1), "seed", 0) >>
    /\ latest_submitted =
           [p \in Profiles |-> IF p \in ActiveProfiles THEN 2 ELSE 0]
    /\ is_completed = [p \in Profiles |-> FALSE]
    /\ timeline = NoTimeline
    /\ calls = NoCalls
    /\ last = NoRequest
    /\ prev = NoRequest
    /\ before = Tables
    /\ nops = 0
    /\ deleted_users = {}

SpecSeededJob == InitSeededJob /\ [][Next]_vars

\* ------------------------------------------------- what a request changed
\* The ticket and notification tables only grow: the rows after the sizes
\* recorded in `before` are the rows the last request inserted.
NewTickets == SubSeq(tickets, Len(before.tickets) + 1, Len(tickets))

NewNotifications ==
    SubSeq(notifications, Len(before.notifications) + 1, Len(notifications))

\* The last request was a process_checkin call.
ProcessCalled == last.op = "process_checkin"

\* Notifications process_checkin sent to the assigned case worker.
CaseWorkerAlerts ==
    SelectSeq(NewNotifications, LAMBDA n : n.user.role = "case_worker")

\* Notifications process_checkin sent to the beneficiary of the profile.
BeneficiaryNotices ==
    SelectSeq(NewNotifications, LAMBDA n : n.user = ProfileUser(last.profile))

TicketsOfType(tks, t) == SelectSeq(tks, LAMBDA k : k.ticket_type = t)

AlertsOfType(t) == SelectSeq(CaseWorkerAlerts, LAMBDA n : n.message.template = t)

\* ------------------------------------------------------------------ C1
\* C1: in every reachable state, for each profile and ticket type at most
\* one ticket is automatic and open.
C1_AtMostOneOpenAutoTicket ==
    \A p \in Profiles, t \in TYPE_CHOICES :
        Cardinality(OpenAutoTickets(tickets, p, t)) <= 1

\* ------------------------------------------------------------------ C2
\* C2: once a report has been submitted for a profile, the stored risk level
\* is calculate_risk_level of the content now stored for the report that was
\* submitted last (created, replaced or edited, on any path).
C2_TierOfLatestReport ==
    \A p \in Profiles :
        latest_submitted[p] # 0 =>
            risk_level[p] = calculate_risk_level(checkins[p][latest_submitted[p]])

\* ------------------------------------------------------------------ C3
\* Two process_checkin calls in a row on one profile with the same content.
ProcessedTwice ==
    /\ ProcessCalled
    /\ prev.op = "process_checkin"
    /\ prev.profile = last.profile
    /\ prev.checkin = last.checkin

\* C3: the second of two process_checkin calls in a row with identical
\* content creates no ticket, leaves the risk level as the first call set
\* it, sends the beneficiary nothing, and leaves the open automatic tickets
\* of every type as they were after the first call.
C3_SecondCallIdempotent ==
    ProcessedTwice =>
        /\ NewTickets = <<>>
        /\ last.created_tickets = <<>>
        /\ ~last.risk_changed
        /\ risk_level[last.profile] = before.risk_level[last.profile]
        /\ risk_level[last.profile] = prev.new_risk_level
        /\ BeneficiaryNotices = <<>>
        /\ \A t \in TYPE_CHOICES :
              OpenAutoTickets(tickets, last.profile, t) =
              OpenAutoTickets(before.tickets, last.profile, t)

\* Reached: a repeated call whose first call created tickets and changed the
\* risk level.
C3_Witness ==
    /\ ProcessedTwice
    /\ last.outcome = "returned"
    /\ prev.created_tickets # <<>>
    /\ prev.risk_changed

\* ------------------------------------------------------------------ C4
\* C4: process_checkin notifies the beneficiary if and only if the
\* calculated level differs from the level stored before the call, and then
\* exactly once, with the message of the new level.
C4_BeneficiaryNotifiedIffChanged ==
    ProcessCalled =>
        LET new_level == calculate_risk_level(last.checkin)
            old_level == before.risk_level[last.profile]
        IN  BeneficiaryNotices =
                IF new_level # old_level
                THEN << Notification(ProfileUser(last.profile),
                                     risk_messages[new_level], 0) >>
                ELSE << >>

\* The same, for the calls that returned: used to locate the divergence.
C4_HoldsWhenReturned ==
    (ProcessCalled /\ last.outcome = "returned") =>
        C4_BeneficiaryNotifiedIffChanged

\* -------------------------------------------------------------- C5 - C7
\* The last step was a calculate_risk_level call (SpecClassify).
ClassifyCalled == last.op = "calculate_risk_level"

RedCondition(c) == c.mental_state = "bad" \/ c.housing_status = "homeless"

YellowCondition(c) ==
    \/ c.job_status = "unemployed"
    \/ c.family_status = "problematic"
    \/ c.mental_state = "stressed"
    \/ c.family_status = "no_contact"

\* C5: a check-in with mental_state bad or housing_status homeless is
\* classified red, whatever the other fields are.
C5_RedDominates ==
    (ClassifyCalled /\ RedCondition(last.checkin)) => last.new_risk_level = "red"

\* Reached: a red result for a check-in that also meets yellow conditions.
C5_Witness ==
    /\ ClassifyCalled
    /\ last.checkin = Checkin("homeless", "unemployed", "stressed", "no_contact")
    /\ last.new_risk_level = "red"

\* C6: a check-in with no red condition and at least one of unemployed,
\* problematic, stressed, no_contact is classified yellow.
C6_YellowWithoutRed ==
    (ClassifyCalled /\ ~RedCondition(last.checkin) /\ YellowCondition(last.checkin))
        => last.new_risk_level = "yellow"

\* Reached: a yellow result whose only condition is no_contact.
C6_Witness ==
    /\ ClassifyCalled
    /\ last.checkin = Checkin("temporary", "searching", "moderate", "no_contact")
    /\ last.new_risk_level = "yellow"

\* C7: over all combinations of field choices the result is one of green,
\* yellow, red, and it is green when no red and no yellow condition holds.
C7_GreenOtherwise ==
    ClassifyCalled =>
        /\ last.checkin \in CheckinFields
        /\ last.new_risk_level \in RISK_LEVEL_CHOICES
        /\ (~RedCondition(last.checkin) /\ ~YellowCondition(last.checkin))
              => last.new_risk_level = "green"

\* Reached: a green result for a check-in none of whose fields is the best
\* choice.
C7_Witness ==
    /\ ClassifyCalled
    /\ last.checkin = Checkin("temporary", "searching", "moderate", "neutral")
    /\ last.new_risk_level = "green"

\* ------------------------------------------------------------------ C8
UrgentTypes == {"psychological", "housing"}

WorkerAssigned == assigned_case_worker[last.profile] # NoUser

\* C8 as claimed: with a case worker assigned, every process_checkin call
\* on a check-in with mental_state bad (housing_status homeless) alerts the
\* case worker for that rule, also when an open automatic ticket of the
\* type exists already.
C8_AlertOnEveryCall ==
    (ProcessCalled /\ WorkerAssigned) =>
        \A t \in UrgentTypes :
            RuleTriggered(last.checkin, t) => AlertsOfType(t) # <<>>

\* C8 amended: with a case worker assigned, a process_checkin call on a
\* check-in with mental_state bad (housing_status homeless) alerts the case
\* worker for that rule exactly when it creates a new ticket of the type,
\* once; when an open automatic ticket of the type exists already it creates
\* no ticket of the type and sends no alert for it.
C8_AlertExactlyWhenCreated ==
    (ProcessCalled /\ WorkerAssigned) =>
        \A t \in UrgentTypes :
            RuleTriggered(last.checkin, t) =>
                /\ Len(AlertsOfType(t)) = Len(TicketsOfType(NewTickets, t))
                /\ Len(AlertsOfType(t)) <= 1
                /\ \A i \in DOMAIN AlertsOfType(t) :
                      AlertsOfType(t)[i] =
                          Notification(assigned_case_worker[last.profile], t,
                                       last.profile)
                /\ OpenAutoTickets(before.tickets, last.profile, t) # {}
                      => AlertsOfType(t) = <<>>

\* Reached: the second of two calls with mental_state bad, the first of
\* which created the ticket and alerted the case worker.
C8_Witness ==
    /\ ProcessedTwice
    /\ WorkerAssigned
    /\ last.checkin.mental_state = "bad"
    /\ last.outcome = "returned"
    /\ AlertsOfType("psychological") = <<>>
    /\ \E i \in DOMAIN before.notifications :
          before.notifications[i] =
              Notification(CaseWorker, "psychological", last.profile)

\* ------------------------------------------------------------------ C9
OnlyJobOrSocialCreated ==
    /\ NewTickets # <<>>
    /\ \A i \in DOMAIN NewTickets : NewTickets[i].ticket_type \in {"job", "social"}

\* C9: no case worker notification of process_checkin is on account of a
\* job or social ticket; a call that creates only job or social tickets
\* sends the case worker nothing.
C9_NoAlertForJobOrSocial ==
    ProcessCalled =>
        /\ \A i \in DOMAIN CaseWorkerAlerts :
              CaseWorkerAlerts[i].message.template \in UrgentTypes
        /\ OnlyJobOrSocialCreated => CaseWorkerAlerts = <<>>

\* Reached: a call for a profile with a case worker that created a job and a
\* social ticket and nothing else.
C9_Witness ==
    /\ ProcessCalled
    /\ WorkerAssigned
    /\ OnlyJobOrSocialCreated
    /\ TicketsOfType(NewTickets, "job") # <<>>
    /\ TicketsOfType(NewTickets, "social") # <<>>
    /\ CaseWorkerAlerts = <<>>

\* ------------------------------------------------------------------ C10
RedScenarioCheckin == Checkin("temporary", "unemployed", "bad", "problematic")

RedScenario ==
    /\ ProcessCalled
    /\ last.checkin = RedScenarioCheckin
    /\ WorkerAssigned
    /\ \A t \in TYPE_CHOICES :
          OpenAutoTickets(before.tickets, last.profile, t) = {}

\* C10: processing {bad, temporary, unemployed, problematic} for a profile
\* with a case worker and no open automatic ticket sets the risk level to
\* red, creates exactly three tickets (psychological, job, social), none for
\* housing, and sends the case worker exactly one notification, the
\* psychological alert.
C10_RedScenario ==
    RedScenario =>
        /\ risk_level[last.profile] = "red"
        /\ last.new_risk_level = "red"
        /\ Len(NewTickets) = 3
        /\ Len(TicketsOfType(NewTickets, "psychological")) = 1
        /\ Len(TicketsOfType(NewTickets, "job")) = 1
        /\ Len(TicketsOfType(NewTickets, "social")) = 1
        /\ TicketsOfType(NewTickets, "housing") = <<>>
        /\ \A i \in DOMAIN NewTickets :
              /\ NewTickets[i].release_profile = last.profile
              /\ NewTickets[i].status = "open"
              /\ NewTickets[i].is_auto_generated
        /\ Len(last.created_tickets) = 3
        /\ CaseWorkerAlerts =
              << Notification(assigned_case_worker[last.profile],
                              "psychological", last.profile) >>

\* Reached: the scenario on a profile that already holds tickets (a manual
\* one, or an automatic one no longer open).
C10_Witness ==
    /\ RedScenario
    /\ before.tickets # <<>>
    /\ Len(NewTickets) = 3

\* ------------------------------------------------------------------ C11
\* C11: a process_checkin call on a check-in that calculate_risk_level maps
\* to green creates no ticket and sends no case worker notification,
\* whatever tickets the profile has; and no combination of field choices
\* that is green meets the condition of a ticket rule (a fact about the
\* two functions, evaluated once, in the initial state).
C11_GreenCreatesNothing ==
    /\ nops = 0 =>
          \A c \in CheckinFields :
              calculate_risk_level(c) = "green" =>
                  \A t \in TYPE_CHOICES : ~RuleTriggered(c, t)
    /\ (ProcessCalled /\ calculate_risk_level(last.checkin) = "green") =>
          /\ NewTickets = <<>>
          /\ tickets = before.tickets
          /\ last.created_tickets = <<>>
          /\ CaseWorkerAlerts = <<>>

\* Reached: a green check-in processed for a profile with a case worker
\* whose earlier check-in was red and left automatic tickets.
C11_Witness ==
    /\ ProcessCalled
    /\ calculate_risk_level(last.checkin) = "green"
    /\ WorkerAssigned
    /\ before.risk_level[last.profile] = "red"
    /\ \E i \in DOMAIN before.tickets : before.tickets[i].is_auto_generated
    /\ NewTickets = <<>>

\* ------------------------------------------------------------------ C12
\* The categories C12 names for a check-in: mental bad -> psychological,
\* homeless -> housing, unemployed -> job, family problematic or no_contact
\* -> social.
TriggeredCategories(c) ==
    (IF c.mental_state = "bad" THEN {"psychological"} ELSE {}) \cup
    (IF c.housing_status = "homeless" THEN {"housing"} ELSE {}) \cup
    (IF c.job_status = "unemployed" THEN {"job"} ELSE {}) \cup
    (IF c.family_status \in {"problematic", "no_contact"} THEN {"social"} ELSE {})

\* The categories of the rows the last request inserted.
NewTicketTypes == { NewTickets[i].ticket_type : i \in DOMAIN NewTickets }

\* C12: when process_checkin returns, the profile has an open automatic
\* ticket of every triggered category, and the categories of the tickets
\* the call created are exactly the triggered categories that had no open
\* automatic ticket before the call: at most four tickets, of pairwise
\* distinct categories, none financial, each open and automatic.
C12_TriggeredCategoriesEnsured ==
    (ProcessCalled /\ last.outcome = "returned") =>
        LET triggered == TriggeredCategories(last.checkin)
            missing == { t \in triggered :
                           OpenAutoTickets(before.tickets, last.profile, t) = {} }
        IN  /\ \A t \in triggered :
                  OpenAutoTickets(tickets, last.profile, t) # {}
            /\ NewTicketTypes = missing
            /\ Len(NewTickets) = Cardinality(missing)
            /\ Len(NewTickets) <= 4
            /\ "financial" \notin NewTicketTypes
            /\ \A i \in DOMAIN NewTickets :
                  /\ NewTickets[i].release_profile = last.profile
                  /\ NewTickets[i].status = "open"
                  /\ NewTickets[i].is_auto_generated

\* Reached: a returning call with two triggered categories, one of which had
\* an open automatic ticket already and one of which had not.
C12_Witness ==
    /\ ProcessCalled
    /\ last.outcome = "returned"
    /\ Cardinality(TriggeredCategories(last.checkin)) >= 2
    /\ \E t \in TriggeredCategories(last.checkin) :
          OpenAutoTickets(before.tickets, last.profile, t) # {}
    /\ \E t \in TriggeredCategories(last.checkin) :
          /\ OpenAutoTickets(before.tickets, last.profile, t) = {}
          /\ t \in NewTicketTypes

\* ------------------------------------------------------------------ C13
\* The rows of the ticket table that existed before the last request.
OldTickets == SubSeq(tickets, 1, Len(before.tickets))

\* C13: process_checkin leaves every ticket that existed before the call as
\* it was, in every field; an open automatic ticket of a triggered category
\* that exists already is not duplicated and is not in created_tickets.
C13_ExistingTicketsUntouched ==
    ProcessCalled =>
        /\ Len(tickets) >= Len(before.tickets)
        /\ OldTickets = before.tickets
        /\ \A i \in DOMAIN last.created_tickets :
              last.created_tickets[i] \notin DOMAIN before.tickets
        /\ \A t \in TriggeredCategories(last.checkin) :
              OpenAutoTickets(before.tickets, last.profile, t) # {} =>
                  /\ TicketsOfType(NewTickets, t) = <<>>
                  /\ OpenAutoTickets(tickets, last.profile, t) =
                        OpenAutoTickets(before.tickets, last.profile, t)

\* Reached: a call on a triggered category whose open automatic ticket was
\* created for another month, so an update would have changed its notes.
C13_Witness ==
    /\ ProcessCalled
    /\ last.outcome = "returned"
    /\ \E t \in TriggeredCategories(last.checkin) :
          \E i \in OpenAutoTickets(before.tickets, last.profile, t) :
              /\ before.tickets[i].notes.month # last.month_index
              /\ tickets[i] = before.tickets[i]

\* ------------------------------------------------------------------ C14
\* The open tickets of a profile and type that were created by hand.
OpenManualTickets(tks, profile, ticket_type) ==
    { i \in DOMAIN tks :
        /\ tks[i].release_profile = profile
        /\ tks[i].ticket_type = ticket_type
        /\ tks[i].status = "open"
        /\ ~tks[i].is_auto_generated }

\* The last request was process_checkin on a check-in triggering category t
\* for a profile whose open tickets of category t were all manual.
OnlyManualOpen(t) ==
    /\ ProcessCalled
    /\ t \in TriggeredCategories(last.checkin)
    /\ OpenManualTickets(before.tickets, last.profile, t) # {}
    /\ OpenAutoTickets(before.tickets, last.profile, t) = {}

\* C14: a manual ticket is never matched: process_checkin on a check-in
\* triggering category t, for a profile whose only open tickets of category
\* t are manual, creates one new open automatic ticket of category t and
\* leaves the manual tickets as they were.
C14_ManualNeverMatched ==
    \A t \in TYPE_CHOICES :
        OnlyManualOpen(t) =>
            /\ Len(TicketsOfType(NewTickets, t)) = 1
            /\ \A i \in DOMAIN NewTickets :
                  NewTickets[i].ticket_type = t =>
                      /\ NewTickets[i].status = "open"
                      /\ NewTickets[i].is_auto_generated
            /\ \A i \in OpenManualTickets(before.tickets, last.profile, t) :
                  tickets[i] = before.tickets[i]

\* The same, for the calls that returned: used to locate the divergence.
C14_HoldsWhenReturned ==
    (ProcessCalled /\ last.outcome = "returned") => C14_ManualNeverMatched

\* Reached: a returning call that created an automatic ticket of a category
\* next to an open manual one.
C14_ReturnedWitness ==
    /\ \E t \in TYPE_CHOICES :
          OnlyManualOpen(t) /\ Len(TicketsOfType(NewTickets, t)) = 1
    /\ last.outcome = "returned"

\* ------------------------------------------------------------------ C18
\* The ids of the rows the last request inserted, in order of insertion.
NewTicketIds == [i \in 1..Len(NewTickets) |-> Len(before.tickets) + i]

\* C18: the dict process_checkin returns holds as old_risk_level the level
\* stored before the call, as new_risk_level calculate_risk_level of the
\* check-in, which is the level stored after the call, as risk_changed
\* whether the two differ, and as created_tickets exactly the tickets the
\* call inserted.
C18_ReturnedDict ==
    (ProcessCalled /\ last.outcome = "returned") =>
        /\ last.old_risk_level = before.risk_level[last.profile]
        /\ last.new_risk_level = calculate_risk_level(last.checkin)
        /\ last.new_risk_level = risk_level[last.profile]
        /\ last.risk_changed = (last.old_risk_level # last.new_risk_level)
        /\ last.created_tickets = NewTicketIds

\* Reached: a returning call that changed the level, created a ticket and
\* found the open automatic ticket of another triggered category.
C18_Witness ==
    /\ ProcessCalled
    /\ last.outcome = "returned"
    /\ last.risk_changed
    /\ last.created_tickets # <<>>
    /\ \E t \in TriggeredCategories(last.checkin) :
          OpenAutoTickets(before.tickets, last.profile, t) # {}

\* ------------------------------------------------------------- C15 - C17
\* current_month has been read; the days from the release date to today.
TimelineRead == timeline.read

HasReleaseDate == timeline.release_date # <<>>

DaysSinceRelease == timeline.today - timeline.release_date[1]

\* C15: current_month is 0 when the release date is absent and otherwise
\* in 1..12, for every release date and every day, release dates after
\* today included; the result is always in 0..12.
C15_MonthClamped ==
    TimelineRead =>
        /\ timeline.current_month \in 0..12
        /\ ~HasReleaseDate => timeline.current_month = 0
        /\ HasReleaseDate => timeline.current_month \in 1..12

\* The same for the release dates that are not after today: used to locate
\* the divergence.
C15_HoldsForPastDates ==
    (HasReleaseDate => DaysSinceRelease >= 0) => C15_MonthClamped

\* The nearest integer to n / d, for n >= 0 and d > 0.
RoundDiv(n, d) == (2 * n + d) \div (2 * d)

\* C16 as claimed: for every current_month value m in 0..12 the progress
\* percentage is min(100, round(m / 12 * 100)), rounded to the nearest
\* integer.
C16_ProgressRounded ==
    (TimelineRead /\ timeline.current_month \in 0..12) =>
        timeline.progress_percentage =
            Min(100, RoundDiv(timeline.current_month * 100, 12))

\* C16 amended: for every current_month value m in 0..12 the progress
\* percentage is min(100, floor(m / 12 * 100)), the fraction dropped: 41
\* for m = 5, 58 for m = 7, 91 for m = 11, 100 for m = 12.
C16_ProgressTruncated ==
    (TimelineRead /\ timeline.current_month \in 0..12) =>
        LET m == timeline.current_month
            pct == timeline.progress_percentage
        IN  /\ pct \in 0..100
            /\ 12 * pct <= 100 * m
            /\ 100 * m < 12 * (pct + 1)
            /\ m = 5 => pct = 41
            /\ m = 7 => pct = 58
            /\ m = 11 => pct = 91
            /\ m = 12 => pct = 100

\* Reached: month 5 read with 41 percent.
C16_Witness ==
    /\ TimelineRead
    /\ timeline.current_month = 5
    /\ timeline.progress_percentage = 41

\* C17: for a release date d >= 0 days before today, current_month is
\* min(12, floor(d / 30) + 1): month k < 12 exactly for 30 (k - 1) <= d <
\* 30 k, month 12 from day 330 on; 90 days give month 4, 330 days give
\* month 12 and 100 percent.
C17_MonthOfPastRelease ==
    (TimelineRead /\ HasReleaseDate /\ DaysSinceRelease >= 0) =>
        LET d == DaysSinceRelease
            m == timeline.current_month
        IN  /\ m \in 1..12
            /\ 30 * (m - 1) <= d
            /\ m < 12 => d < 30 * m
            /\ d = 90 => m = 4
            /\ d = 330 => m = 12 /\ timeline.progress_percentage = 100

\* Reached: a release 330 days ago read as month 12, 100 percent.
C17_Witness ==
    /\ TimelineRead
    /\ HasReleaseDate
    /\ DaysSinceRelease = 330
    /\ timeline.current_month = 12
    /\ timeline.progress_percentage = 100

\* ------------------------------------------------------------------ C19
\* The last request submitted a check-in for a month that had one: a form
\* post or API POST that went through, an API POST that was refused (only a
\* month that has a check-in is refused), or an API PUT.
Resubmitted ==
    \/ ProcessCalled /\
          before.checkins[last.profile][last.month_index] # NoCheckin
    \/ last.op = "perform_create" /\ last.outcome = "rejected"
    \/ last.op = "perform_update"

\* C19: there is one check-in row at most per (profile, month_index) (the
\* table is keyed by the pair), and on every path a check-in submitted for
\* a month that has one is accepted, takes the place of the stored fields,
\* leaves the other months as they were and is processed.
C19_ResubmissionReplaces ==
    Resubmitted =>
        /\ last.outcome # "rejected"
        /\ ProcessCalled
        /\ checkins[last.profile] =
              [before.checkins[last.profile] EXCEPT
                  ![last.month_index] = last.checkin]

\* The same for the submissions that were processed (form posts, API posts
\* that went through): used to locate the divergence.
C19_HoldsForProcessedSubmissions ==
    (Resubmitted /\ ProcessCalled) => C19_ResubmissionReplaces

\* Reached: a processed resubmission that changed the stored fields.
C19_ReplacedWitness ==
    /\ Resubmitted
    /\ ProcessCalled
    /\ before.checkins[last.profile][last.month_index] # last.checkin
    /\ checkins[last.profile][last.month_index] = last.checkin

\* ------------------------------------------------------------------ C20
\* C20: is_completed of a profile, once True, is True in every later state,
\* and it turns True only in mark_profile_completed.
C20_CompletedMonotonic ==
    \A p \in Profiles :
        /\ before.is_completed[p] => is_completed[p]
        /\ (~before.is_completed[p] /\ is_completed[p]) =>
              (last.op = "mark_profile_completed" /\ last.profile = p)

\* The same with the API left aside: used to locate the divergence.
C20_HoldsWithoutApi ==
    last.op # "partial_update" => C20_CompletedMonotonic

\* Reached: a profile completed by mark_profile_completed.
C20_MarkedWitness ==
    /\ last.op = "mark_profile_completed"
    /\ ~before.is_completed[last.profile]
    /\ is_completed[last.profile]

\* ------------------------------------------------------------- C21 - C23
\* The last request read the summary of a profile.
SummaryCalled == last.op = "risk_summary"

\* The factors of a check-in as C22 lists the conditions.
FactorsHolding(c) ==
    (IF c.mental_state = "bad" THEN {"mental_bad"} ELSE {}) \cup
    (IF c.housing_status = "homeless" THEN {"homeless"} ELSE {}) \cup
    (IF c.job_status = "unemployed" THEN {"unemployed"} ELSE {}) \cup
    (IF c.family_status = "problematic" THEN {"family_problematic"} ELSE {}) \cup
    (IF c.family_status = "no_contact" THEN {"family_no_contact"} ELSE {})

RecommendationFor ==
    [mental_bad |-> "psychological_support", homeless |-> "housing_charity",
     unemployed |-> "job_opportunities",
     family_problematic |-> "family_counselling",
     family_no_contact |-> "rebuild_family_ties"]

\* C21: the summary is made from the check-in submitted most recently, not
\* from the one with the highest month index: after month 2 and then month
\* 1 are submitted, latest_checkin and the factors are those of month 1.
C21_SummaryOfLatestSubmitted ==
    (SummaryCalled /\ latest_submitted[last.profile] # 0) =>
        LET submitted == checkins[last.profile][latest_submitted[last.profile]]
        IN  /\ last.summary.latest_month = latest_submitted[last.profile]
            /\ last.summary.latest_checkin = submitted
            /\ { last.summary.factors[i] : i \in DOMAIN last.summary.factors } =
                  FactorsHolding(submitted)

\* The same for the profiles whose latest submission is of their highest
\* month: used to locate the divergence.
C21_HoldsForHighestMonth ==
    (SummaryCalled /\
     latest_submitted[last.profile] = FirstCheckinMonth(checkins[last.profile]))
        => C21_SummaryOfLatestSubmitted

\* Reached: a summary read after a later month was submitted last.
C21_HighestMonthWitness ==
    /\ SummaryCalled
    /\ latest_submitted[last.profile] = 2
    /\ checkins[last.profile][1] # NoCheckin
    /\ last.summary.latest_month = 2

\* C22: with a check-in, the summary holds as many factors as
\* recommendations, one pair for each of the conditions mental bad,
\* homeless, unemployed, family problematic, family no_contact that the
\* check-in meets and no other; the level returned is the stored level; the
\* call writes nothing (level, check-ins, tickets, notifications).  The
\* count of pairs is also checked for all combinations of field choices.
C22_FactorsOfLatest ==
    /\ nops = 0 =>
          \A c \in CheckinFields :
              /\ Len(MatchingTests(c)) = Cardinality(FactorsHolding(c))
              /\ { MatchingTests(c)[i].factor : i \in DOMAIN MatchingTests(c) } =
                    FactorsHolding(c)
    /\ (SummaryCalled /\ last.summary.latest_month # 0) =>
          LET factors == last.summary.factors
              recommendations == last.summary.recommendations
          IN  /\ Len(factors) = Len(recommendations)
              /\ Len(factors) = Cardinality(FactorsHolding(last.summary.latest_checkin))
              /\ { factors[i] : i \in DOMAIN factors } =
                    FactorsHolding(last.summary.latest_checkin)
              /\ \A i \in DOMAIN factors :
                    recommendations[i] = RecommendationFor[factors[i]]
              /\ last.summary.latest_checkin \in
                    { checkins[last.profile][m] : m \in MonthIndexes }
              /\ last.summary.risk_level = risk_level[last.profile]
              /\ Tables = before

\* Reached: a summary with three pairs, of a check-in with family_status
\* no_contact or problematic, for a profile that has tickets.
C22_Witness ==
    /\ SummaryCalled
    /\ Len(last.summary.factors) >= 2
    /\ last.summary.latest_checkin.family_status \in {"no_contact", "problematic"}
    /\ tickets # <<>>
    /\ notifications # <<>>

\* C23: for a profile without a check-in the summary is green, has no
\* factor and exactly one recommendation, to complete the first check-in,
\* whatever the stored level is; nothing is written.
C23_SummaryWithoutCheckin ==
    (SummaryCalled /\
     \A m \in MonthIndexes : checkins[last.profile][m] = NoCheckin) =>
        /\ last.summary.risk_level = "green"
        /\ last.summary.factors = <<>>
        /\ last.summary.recommendations = << "complete_first_checkin" >>
        /\ Tables = before

\* Reached: the summary of a profile without a check-in whose stored level
\* is red.
C23_Witness ==
    /\ SummaryCalled
    /\ \A m \in MonthIndexes : checkins[last.profile][m] = NoCheckin
    /\ risk_level[last.profile] = "red"
    /\ last.summary.risk_level = "green"

\* ------------------------------------------------------------------ C24
\* process_checkin was called on a check-in with mental_state bad or
\* housing_status homeless for a profile without a case worker.
UrgentWithoutWorker ==
    /\ ProcessCalled
    /\ ~WorkerAssigned
    /\ \E t \in UrgentTypes : t \in TriggeredCategories(last.checkin)

\* C24: without an assigned case worker, process_checkin on a check-in with
\* mental_state bad or housing_status homeless returns its dict, has the
\* psychological (housing) ticket created when the profile had no open
\* automatic one, and sends no case worker notification.
C24_NoWorkerStillProcessed ==
    UrgentWithoutWorker =>
        /\ last.outcome = "returned"
        /\ \A t \in UrgentTypes \cap TriggeredCategories(last.checkin) :
              /\ OpenAutoTickets(tickets, last.profile, t) # {}
              /\ OpenAutoTickets(before.tickets, last.profile, t) = {} =>
                    Len(TicketsOfType(NewTickets, t)) = 1
        /\ CaseWorkerAlerts = <<>>
        /\ \A i \in DOMAIN NewNotifications :
              NewNotifications[i].user.role # "case_worker"

\* The same for the profiles with one open automatic ticket at most per
\* type: used to locate the divergence.
C24_HoldsWithoutDuplicates ==
    (\A t \in TYPE_CHOICES :
        Cardinality(OpenAutoTickets(before.tickets, last.profile, t)) <= 1)
        => C24_NoWorkerStillProcessed

\* Reached: the call returned and created the psychological ticket.
C24_ReturnedWitness ==
    /\ UrgentWithoutWorker
    /\ last.outcome = "returned"
    /\ Len(TicketsOfType(NewTickets, "psychological")) = 1
    /\ NewNotifications # <<>>

\* ------------------------------------------------------------- C25 - C27
\* Rows of the notification table equal to a given row.
CountOf(row) ==
    Cardinality({ i \in DOMAIN notifications : notifications[i] = row })

BothDone == \A k \in CallIds : calls[k].at = "done"

\* C25: two process_checkin calls for one profile interleave one database
\* operation at a time, both on check-ins triggering a category of which
\* the profile has no open automatic ticket; when both calls have finished
\* the profile has one open automatic ticket of the category at most.
C25_NoDuplicateWhenInterleaved ==
    BothDone =>
        \A t \in TYPE_CHOICES :
            (\A k \in CallIds : t \in TriggeredCategories(calls[k].checkin)) =>
                Cardinality(OpenAutoTickets(tickets, CallProfile, t)) <= 1

\* Reached: both calls finished with a single ticket of a category both
\* triggered (the second call's SELECT came after the first call's INSERT).
C25_SerialWitness ==
    /\ BothDone
    /\ \A k \in CallIds : "job" \in TriggeredCategories(calls[k].checkin)
    /\ Cardinality(OpenAutoTickets(tickets, CallProfile, "job")) = 1

\* C26: within a process_checkin call the risk level is saved before any
\* ticket is created: in every intermediate state in which a ticket created
\* by the call exists the call has saved the level, and the stored level is
\* calculate_risk_level of the call's check-in (unless the other call has
\* saved its own level meanwhile).
C26_LevelSavedBeforeTickets ==
    \A k \in CallIds :
        calls[k].created_tickets # <<>> =>
            /\ calls[k].saved
            /\ (\A o \in CallIds \ {k} : ~calls[o].saved) =>
                  risk_level[CallProfile] =
                      calculate_risk_level(calls[k].checkin)

\* Reached: a call that has created its first ticket and has further
\* operations to do, the level red, while the other call has not started.
C26_Witness ==
    \E k \in CallIds :
        /\ Len(calls[k].created_tickets) = 1
        /\ calls[k].at \in {"get", "create", "notify"}
        /\ risk_level[CallProfile] = "red"
        /\ \A o \in CallIds \ {k} : calls[o].at = "idle"

\* Call b is the retry of call a, which failed after saving the level, and
\* has finished.
RetryDone(a, b) ==
    /\ calls[a].at = "failed"
    /\ calls[b].retry
    /\ calls[b].at = "done"

\* The tickets and case worker alerts a single uninterrupted call on the
\* check-in c leaves in the empty tables of the initial state.
TicketsAndAlertsOfOneCall(c, worker) ==
    /\ risk_level[CallProfile] = calculate_risk_level(c)
    /\ \A t \in TYPE_CHOICES :
          Cardinality(OpenAutoTickets(tickets, CallProfile, t)) =
              IF t \in TriggeredCategories(c) THEN 1 ELSE 0
    /\ Len(tickets) = Cardinality(TriggeredCategories(c))
    /\ \A t \in TYPE_CHOICES :
          CountOf(Notification(CaseWorker, t, CallProfile)) =
              IF t \in UrgentTypes \cap TriggeredCategories(c) /\ worker # NoUser
              THEN 1 ELSE 0

\* C27: when a process_checkin call fails after saving the level and before
\* its ticket and notification steps, and the caller retries the call on
\* the same check-in, the final state is that of a single uninterrupted
\* call: the level, the open automatic tickets, the case worker alerts, and
\* the notification to the beneficiary of the changed level.
C27_RetryConverges ==
    \A a \in CallIds, b \in CallIds :
        RetryDone(a, b) =>
            LET c == calls[b].checkin
                new_level == calculate_risk_level(c)
            IN  /\ TicketsAndAlertsOfOneCall(c, calls[b].worker)
                /\ \A level \in RISK_LEVEL_CHOICES :
                      CountOf(Notification(ProfileUser(CallProfile),
                                           risk_messages[level], 0)) =
                          IF level = new_level /\
                             calls[a].old_risk_level # new_level
                          THEN 1 ELSE 0

\* The same without the notification to the beneficiary: used to locate the
\* divergence.
C27_TicketsAndAlertsConverge ==
    \A a \in CallIds, b \in CallIds :
        RetryDone(a, b) =>
            TicketsAndAlertsOfOneCall(calls[b].checkin, calls[b].worker)

\* Reached: a finished retry that created tickets and alerted the case
\* worker.
C27_RetryWitness ==
    \E a \in CallIds, b \in CallIds :
        /\ RetryDone(a, b)
        /\ Len(tickets) = 3
        /\ CountOf(Notification(CaseWorker, "psychological", CallProfile)) = 1

\* ------------------------------------------------------------------ C28
\* The last request submitted a check-in (form or API POST) with a month
\* index outside 1..12 or a field outside its choices.
InvalidSubmitted ==
    /\ last.op \in {"process_checkin", "perform_create"}
    /\ last.checkin # NoCheckin
    /\ \/ last.month_index \notin 1..12
       \/ last.checkin \notin CheckinFields

\* C28: a submission with a month index outside 1..12 or a field outside
\* its choices is rejected before anything is written: no check-in is stored
\* or replaced, and level, tickets and notifications stay as they were.
C28_InvalidRejected ==
    InvalidSubmitted =>
        /\ last.outcome = "rejected"
        /\ Tables = before

\* Reached: the API refusing a check-in with a field outside its choices.
C28_RejectedWitness ==
    /\ InvalidSubmitted
    /\ last.outcome = "rejected"
    /\ last.checkin \notin CheckinFields
    /\ Tables = before

\* Reached: a check-in of month 13, its fields valid, stored and processed.
C28_MonthWitness ==
    /\ InvalidSubmitted
    /\ last.month_index = 13
    /\ last.checkin \in CheckinFields
    /\ last.outcome = "returned"
    /\ checkins[last.profile][13] = last.checkin

\* ------------------------------------------------------------------ C29
\* C29: the stored risk level of a profile changes only in process_checkin:
\* creating a ticket, updating a ticket's status, marking the profile
\* completed, reading a notification, reading the summary and updating the
\* profile through the API leave it as it was. A profile that was deleted
\* has no stored level.
C29_LevelChangesOnlyInProcess ==
    \A p \in Profiles :
        (risk_level[p] # DeletedProfile /\ risk_level[p] # before.risk_level[p]) =>
            (ProcessCalled /\ last.profile = p)

\* The same with the API's profile update left aside: used to locate the
\* divergence.
C29_HoldsWithoutProfileUpdate ==
    last.op # "partial_update" => C29_LevelChangesOnlyInProcess

\* Reached: each of the other requests named, the level of a profile that
\* is not green left as it was.
C29_OtherRequestsWitness ==
    /\ last.op \in {"create_ticket", "update_ticket_status",
                     "mark_profile_completed", "mark_notification_read",
                     "risk_summary", "beneficiary_messages",
                     "destroy_checkin", "partial_update_ticket"}
    /\ prev.op = "process_checkin"
    /\ risk_level[prev.profile] = "red"
    /\ risk_level = before.risk_level

\* ------------------------------------------------------------------ C30
\* C30: the recipient and the message of a notification never change after
\* it is created, and is_read only goes from False to True: a notification
\* that has been read is never unread later. A notification that was
\* deleted is no longer one of them.
C30_NotificationsImmutable ==
    /\ Len(notifications) >= Len(before.notifications)
    /\ \A i \in DOMAIN before.notifications :
          notifications[i] # DeletedNotification =>
              /\ notifications[i].user = before.notifications[i].user
              /\ notifications[i].message = before.notifications[i].message
              /\ before.notifications[i].is_read => notifications[i].is_read

\* The same with the API's notification update left aside: used to locate
\* the divergence.
C30_HoldsWithoutNotificationUpdate ==
    last.op # "partial_update_notification" => C30_NotificationsImmutable

\* Reached: a notification read through the view, recipient and message as
\* they were.
C30_ReadWitness ==
    /\ last.op = "mark_notification_read"
    /\ \E i \in DOMAIN notifications :
          /\ ~before.notifications[i].is_read
          /\ notifications[i] = [before.notifications[i] EXCEPT !.is_read = TRUE]

\* ------------------------------------------------------------------ C31
\* The end date has been set.
EndDateSet == timeline.end_of_followup_date # <<>>

\* C31: a save sets the end of the follow-up to release_date + 365 days
\* only when it is not set; a later save never changes an end date that is
\* set, also after the end date was set by hand or the release date was
\* changed.
C31_EndDateSetOnce ==
    last.op \in {"save", "partial_update_release_date"} =>
        timeline.end_of_followup_date =
            IF before.timeline.end_of_followup_date = <<>>
            THEN << timeline.release_date[1] + 365 >>
            ELSE before.timeline.end_of_followup_date

\* Reached: the end date computed by the first save, then the release date
\* changed and the profile saved, the end date still that of the first
\* release date.
C31_Witness ==
    /\ prev.op = "save"
    /\ last.op = "partial_update_release_date"
    /\ EndDateSet
    /\ timeline.end_of_followup_date # << timeline.release_date[1] + 365 >>
    /\ timeline.end_of_followup_date \notin { <<e>> : e \in EndDateInputs }

\* ------------------------------------------------------------------ C32
\* The level the rules give a check-in, whatever level is stored.
LevelOfReport(c) ==
    IF RedCondition(c) THEN "red"
    ELSE IF YellowCondition(c) THEN "yellow"
    ELSE "green"

\* C32: from every stored level a, one call of process_checkin reaches
\* every level b with a suitable check-in: the level stored after the call
\* is that of the check-in alone, no level is absorbing and the level
\* before the call does not restrict the level after it.
C32_AnyLevelToAnyLevel ==
    /\ nops = 0 =>
          \A b \in RISK_LEVEL_CHOICES :
              \E c \in CheckinInputs : LevelOfReport(c) = b
    /\ ProcessCalled =>
          /\ last.old_risk_level = before.risk_level[last.profile]
          /\ last.new_risk_level = LevelOfReport(last.checkin)
          /\ risk_level[last.profile] = LevelOfReport(last.checkin)

\* A call of process_checkin has taken the level from a to b.
LevelStep(a, b) ==
    /\ ProcessCalled
    /\ before.risk_level[last.profile] = a
    /\ risk_level[last.profile] = b

\* Reached: green to yellow, yellow to red and red to green in three
\* calls in a row.
C32_Witness ==
    /\ LevelStep("red", "green")
    /\ prev.op = "process_checkin"
    /\ prev.old_risk_level = "yellow"
    /\ prev.new_risk_level = "red"

\* ------------------------------------------------------------------ C33
\* What the database holds of profile p: its risk level, its check-ins, its
\* tickets and the notifications of its beneficiary.
RowsOfCase(p) ==
    [risk_level |-> risk_level[p],
     checkins |-> checkins[p],
     tickets |-> SelectSeq(tickets, LAMBDA t : t.release_profile = p),
     notifications |-> SelectSeq(notifications,
                                 LAMBDA n : n.user = ProfileUser(p))]

\* C33: a call of process_checkin for a check-in of profile A leaves the
\* risk level, the check-ins, the tickets and the beneficiary's
\* notifications of every other profile B as they were, at each of its
\* database operations, also when A and B have the same case worker and
\* the calls for A and for B are interleaved.
C33_OtherCaseUntouched ==
    [][ \A k \in CallIds :
           calls'[k] # calls[k] =>
               \A p \in Profiles \ {calls[k].profile} :
                   RowsOfCase(p)' = RowsOfCase(p) ]_vars

\* Reached: both calls over for two profiles of one case worker, their
\* inserts interleaved, each profile with its own tickets, level and
\* notification.
C33_Witness ==
    /\ BothDone
    /\ calls[1].profile # calls[2].profile
    /\ assigned_case_worker[1] = CaseWorker
    /\ assigned_case_worker[2] = CaseWorker
    /\ Len(tickets) >= 3
    /\ tickets[1].release_profile = 1
    /\ tickets[2].release_profile = 2
    /\ tickets[3].release_profile = 1
    /\ risk_level[1] = "red"
    /\ risk_level[2] = "yellow"
    /\ \A p \in Profiles : Len(RowsOfCase(p).notifications) = 1

\* ------------------------------------------------------------------ C34
\* C34: process_checkin returns its dict for every valid check-in in every
\* reachable state of the database, also when status updates by a case
\* worker have left two open automatic tickets of one type for the
\* profile: get_or_create never fails.
C34_ProcessAlwaysReturns ==
    ProcessCalled => last.outcome = "returned"

\* The same for the calls that find at most one open automatic ticket of
\* each type: used to locate the divergence.
C34_HoldsWithoutDuplicates ==
    (\A t \in TYPE_CHOICES :
        Cardinality(OpenAutoTickets(before.tickets, last.profile, t)) <= 1)
        => C34_ProcessAlwaysReturns

\* Reached: two open automatic job tickets, every ticket made by seed_data
\* or by process_checkin and the older one reopened by a status update, and
\* the call of process_checkin that follows raised.
C34_RaisedAfterStatusUpdate ==
    /\ ProcessCalled
    /\ last.outcome = "raised"
    /\ prev.op = "update_ticket_status"
    /\ \A i \in DOMAIN tickets : tickets[i].notes # ManualNotes

\* Reached: a call that finds one open automatic ticket of a triggered
\* type and returns.
C34_ReturnedWitness ==
    /\ ProcessCalled
    /\ last.outcome = "returned"
    /\ prev.op = "update_ticket_status"
    /\ Cardinality(OpenAutoTickets(before.tickets, last.profile, "job")) = 1
    /\ RuleTriggered(last.checkin, "job")

\* ------------------------------------------------------------------ C35
\* mark_profile_completed has saved the profile with is_completed True.
MarkedCompleted == calls[MarkingCall].saved

\* C35: process_checkin interleaved with mark_profile_completed on one
\* profile writes the risk level only: is_completed, set to True between
\* the call's read of the profile and its save, is still True when the call
\* is over.
C35_CompletedKept ==
    (calls[CompletingCall].at = "done" /\ MarkedCompleted) =>
        is_completed[CallProfile]

\* The same for the calls that read the profile after it was marked: used
\* to locate the divergence.
C35_HoldsWhenReadAfterMark ==
    calls[CompletingCall].is_completed => C35_CompletedKept

\* Reached: the profile marked before the call read it, the call over, the
\* risk level changed and the flag still True.
C35_MarkedFirstWitness ==
    /\ calls[CompletingCall].at = "done"
    /\ calls[MarkingCall].at = "done"
    /\ calls[CompletingCall].is_completed
    /\ is_completed[CallProfile]
    /\ risk_level[CallProfile] = "red"

\* Reached: the view read the profile before the call saved the level and
\* saved it after: the level the call stored is overwritten by the level
\* the view had read.
C35_LevelOverwritten ==
    /\ calls[CompletingCall].at = "done"
    /\ calls[MarkingCall].at = "done"
    /\ calls[CompletingCall].new_risk_level = "yellow"
    /\ risk_level[CallProfile] = "green"
    /\ is_completed[CallProfile]

\* ------------------------------------------------------------------ C36
\* With both calls over, the call whose profile.save() came last: the
\* stored level is the one it wrote.
LastSaver ==
    CHOOSE k \in CallIds : risk_level[CallProfile] = calls[k].new_risk_level

FirstSaver == CHOOSE k \in CallIds : k # LastSaver

\* How many times the stored level changed value, from green in the
\* initial state, over the two saves.
TierChanges ==
    (IF calls[FirstSaver].new_risk_level # "green" THEN 1 ELSE 0)
    + (IF calls[LastSaver].new_risk_level # calls[FirstSaver].new_risk_level
       THEN 1 ELSE 0)

\* The notifications of a changed level the beneficiary has received.
TierNotices ==
    SelectSeq(notifications, LAMBDA n : n.user = ProfileUser(CallProfile))

\* C36: with two calls of process_checkin interleaved on one profile, the
\* beneficiary receives as many notifications of a changed level as the
\* stored level changed value: two calls that both read green and both
\* write red send one notification.
C36_OneNoticePerChange ==
    BothDone => Len(TierNotices) = TierChanges

\* Reached: two calls one after the other, green to red to yellow, two
\* notifications for two changes.
C36_SerialWitness ==
    /\ BothDone
    /\ calls[FirstSaver].old_risk_level = "green"
    /\ calls[FirstSaver].new_risk_level = "red"
    /\ calls[LastSaver].old_risk_level = "red"
    /\ calls[LastSaver].new_risk_level = "yellow"
    /\ Len(TierNotices) = 2
    /\ TierChanges = 2

\* Reached: both calls read green and wrote red, and the beneficiary has
\* two notifications for one change.
C36_BothReadGreen ==
    /\ BothDone
    /\ \A k \in CallIds :
          /\ calls[k].old_risk_level = "green"
          /\ calls[k].new_risk_level = "red"
    /\ Len(TierNotices) = 2
    /\ TierChanges = 1

\* ------------------------------------------------------------------ C37
\* The automatic tickets of type t the profile of the last request had
\* before it, with a status of the set given.
AutoTicketsBefore(t, statuses) ==
    { i \in DOMAIN before.tickets :
        /\ before.tickets[i].release_profile = last.profile
        /\ before.tickets[i].ticket_type = t
        /\ before.tickets[i].is_auto_generated
        /\ before.tickets[i].status \in statuses }

\* The automatic ticket of type t has been moved on: the profile has one
\* that is in progress, resolved or closed, and none that is open.
MovedOn(t) ==
    /\ AutoTicketsBefore(t, STATUS_CHOICES \ {"open"}) # {}
    /\ AutoTicketsBefore(t, {"open"}) = {}

\* C37: the match is on status open only. Once the open automatic ticket
\* of type t has been moved to in_progress, resolved or closed, the next
\* check-in that triggers t has a new open automatic ticket of type t
\* created, with a new case worker notification for psychological and
\* housing, and the profile then holds a ticket that is not open and an
\* open one of the same type.
C37_FreshTicketAfterStatusChange ==
    ProcessCalled =>
        \A t \in TriggeredCategories(last.checkin) :
            MovedOn(t) =>
                /\ Len(TicketsOfType(NewTickets, t)) = 1
                /\ \A i \in DOMAIN NewTickets :
                      NewTickets[i].ticket_type = t =>
                          /\ NewTickets[i].status = "open"
                          /\ NewTickets[i].is_auto_generated
                          /\ NewTickets[i].release_profile = last.profile
                /\ (t \in UrgentTypes /\ WorkerAssigned) =>
                      Len(AlertsOfType(t)) = 1
                /\ \A i \in AutoTicketsBefore(t, STATUS_CHOICES \ {"open"}) :
                      tickets[i] = before.tickets[i]

\* The same for the calls that return: used to locate the divergence.
C37_HoldsWhenReturned ==
    last.outcome = "returned" => C37_FreshTicketAfterStatusChange

\* Reached: the job ticket in progress, two open automatic psychological
\* tickets, and a check-in that triggers both rules: the call ends at the
\* psychological rule and no job ticket is created.
C37_RaisedBeforeRule ==
    /\ ProcessCalled
    /\ last.outcome = "raised"
    /\ MovedOn("job")
    /\ "job" \in TriggeredCategories(last.checkin)
    /\ Cardinality(AutoTicketsBefore("psychological", {"open"})) = 2
    /\ tickets = before.tickets

\* Reached: the psychological ticket of the first check-in moved to
\* in_progress by the case worker, and the next check-in with mental_state
\* bad: a second ticket, open, and a second alert.
C37_Witness ==
    /\ ProcessCalled
    /\ last.outcome = "returned"
    /\ prev.op = "update_ticket_status"
    /\ WorkerAssigned
    /\ MovedOn("psychological")
    /\ Len(tickets) >= 2
    /\ \E i, j \in DOMAIN tickets :
          /\ tickets[i].ticket_type = "psychological"
          /\ tickets[i].status = "in_progress"
          /\ tickets[i].is_auto_generated
          /\ tickets[j].ticket_type = "psychological"
          /\ tickets[j].status = "open"
          /\ tickets[j].is_auto_generated
    /\ Len(SelectSeq(notifications,
            LAMBDA n : n = Notification(CaseWorker, "psychological",
                                        last.profile))) = 2

\* ------------------------------------------------------------------ C38
UpdateCalled == last.op = "update_ticket_status"

\* The request is one the view accepts: a case worker or an admin, a ticket
\* that exists, a status of STATUS_CHOICES.
UpdateAccepted ==
    /\ last.user.role \in {"case_worker", "admin"}
    /\ last.ticket_id \in DOMAIN before.tickets
    /\ last.new_status \in {"open", "in_progress", "resolved", "closed"}

OldNotifications == SubSeq(notifications, 1, Len(before.notifications))

\* C38: update_ticket_status with a status outside open, in_progress,
\* resolved, closed, or called by a user who is neither case worker nor
\* admin, leaves the ticket as it was and creates no notification; with a
\* valid status it stores the status, whatever the status was (the same
\* one included), and creates exactly one notification, for the beneficiary
\* of the ticket's profile.
C38_StatusUpdate ==
    UpdateCalled =>
        /\ OldNotifications = before.notifications
        /\ IF UpdateAccepted
           THEN /\ tickets = [before.tickets EXCEPT
                                 ![last.ticket_id].status = last.new_status]
                /\ NewNotifications =
                      << Notification(
                           ProfileUser(
                             before.tickets[last.ticket_id].release_profile),
                           "ticket_status", 0) >>
           ELSE /\ tickets = before.tickets
                /\ NewNotifications = <<>>

\* Reached: an admin sets a ticket to the status it has, and the
\* beneficiary is notified once.
C38_Witness ==
    /\ UpdateCalled
    /\ UpdateAccepted
    /\ last.user = Admin
    /\ before.tickets[last.ticket_id].status = "in_progress"
    /\ tickets[last.ticket_id].status = "in_progress"
    /\ Len(NewNotifications) = 1

\* Reached: a beneficiary's request and a case worker's request with a
\* status outside the choices, one after the other, both refused.
C38_RefusedWitness ==
    /\ UpdateCalled
    /\ prev.op = "update_ticket_status"
    /\ prev.user.role = "beneficiary"
    /\ prev.outcome = "403"
    /\ last.user = CaseWorker
    /\ last.ticket_id \in DOMAIN tickets
    /\ last.new_status \in InvalidStatusInputs
    /\ last.outcome = "400"
    /\ Tables = before

\* ------------------------------------------------------------------ C39
\* mental_state stressed is the only risk condition of the check-in.
StressedOnly(c) ==
    /\ c.mental_state = "stressed"
    /\ c.housing_status \in {"stable", "temporary", "with_family"}
    /\ c.job_status \in {"employed", "self_employed", "searching", "training"}
    /\ c.family_status \in {"supportive", "neutral"}

\* C39: a check-in whose only risk condition is mental_state stressed sets
\* the level to yellow, has no ticket created and no case worker
\* notification sent, and the summary of a profile whose latest check-in
\* is such a report has no factors and no recommendations: a stored level
\* that is not green implies neither an open automatic ticket nor a factor.
C39_StressedOnly ==
    /\ (ProcessCalled /\ StressedOnly(last.checkin)) =>
          /\ last.outcome = "returned"
          /\ risk_level[last.profile] = "yellow"
          /\ tickets = before.tickets
          /\ CaseWorkerAlerts = <<>>
    /\ (SummaryCalled /\ StressedOnly(last.summary.latest_checkin)) =>
          /\ last.summary.factors = <<>>
          /\ last.summary.recommendations = <<>>

\* Reached: the summary read right after a stressed-only check-in, the
\* profile's first: level yellow, no ticket, no factor.
C39_Witness ==
    /\ SummaryCalled
    /\ prev.op = "process_checkin"
    /\ StressedOnly(prev.checkin)
    /\ last.summary.latest_checkin = prev.checkin
    /\ last.summary.risk_level = "yellow"
    /\ last.summary.factors = <<>>
    /\ last.summary.recommendations = <<>>
    /\ tickets = <<>>
    /\ assigned_case_worker[last.profile] = CaseWorker
    /\ \A i \in DOMAIN notifications : notifications[i].user # CaseWorker

====
